---- MODULE Spec2Model ----
(***************************************************************************)
(* A model of wasm-maze: grid addressing (direction.rs), the cell model    *)
(* (lib.rs), the two maze generators (generate/), the five solvers         *)
(* (solve/) and the driver that runs them from the animation-frame and     *)
(* button callbacks (lib.rs, main).                                        *)
(***************************************************************************)
EXTENDS Integers, Sequences, FiniteSets, TLC

VARIABLES
    phase,          \* lib.rs: phase (Phase::Generate / Solve / Complete)
    dimensions,     \* lib.rs: dimensions, <<width, height>>
    cells,          \* lib.rs: cells, a function 0..len-1 -> Cell
    generator,      \* lib.rs: generator (Box<dyn Generator>), with its private state
    solver,         \* lib.rs: solver (Box<dyn Solver>), with its private state
    from,           \* lib.rs: from
    to,             \* lib.rs: to
    solveDisabled,  \* lib.rs: button_solver's disabled attribute
    last,           \* the most recent callback and, for a step call, what it returned
    calls,          \* the number of step calls made on the current solver instance or,
                    \* in Phase::Generate, on the current generator instance (counted
                    \* for the generators of CountsCalls)
    probe           \* what the test harness applied: a grid-addressing function and its
                    \* result (SpecDir), or a re-run (SpecRerun) or a cancellation (SpecCancel)

vars == <<phase, dimensions, cells, generator, solver, from, to, solveDisabled, last, calls, probe>>

(***************************************************************************)
(* Bounds of the model.                                                    *)
(***************************************************************************)
\* the driver is explored on every grid of at most MaxCells cells
MaxCells == 6
\* the driver with clicks at any moment is explored on every grid of at most
\* DriverMaxCells cells
DriverMaxCells == 4
\* the grid-addressing functions are explored on every width and height up to MaxSide
MaxSide == 4

(***************************************************************************)
(* Option<T>: None is the empty sequence, Some(x) the one-element sequence. *)
(***************************************************************************)
None == <<>>
Some(x) == <<x>>
IsSome(o) == o # <<>>
Unwrap(o) == o[1]

\* usize::checked_sub: None on underflow
checked_sub(a, b) == IF a < b THEN None ELSE Some(a - b)
\* usize::checked_add: None on overflow, which no index of a grid that fits in
\* memory reaches (a cell index plus a width is below 2 * width * height)
checked_add(a, b) == Some(a + b)

(***************************************************************************)
(* direction.rs                                                            *)
(***************************************************************************)
First == 1
Second == 2
Third == 4
Forth == 8
DIRECTIONS == <<First, Second, Third, Forth>>
Direction == {First, Second, Third, Forth}

next(d) ==
    CASE d = First -> Second
      [] d = Second -> Third
      [] d = Third -> Forth
      [] d = Forth -> First

prev(d) ==
    CASE d = First -> Forth
      [] d = Second -> First
      [] d = Third -> Second
      [] d = Forth -> Third

\* Option::filter: ok is the predicate applied to the value held by o; it is
\* only evaluated when o holds a value
Filter(o, ok) == IF IsSome(o) /\ ok THEN o ELSE None

\* the three filters of neighbour
neighbourSecondOk(dims, val) == val % dims[1] # 0

\* mutant: an off-by-one bound on the last row
neighbourThirdOk_OffByOne(dims, val) == val <= dims[1] * dims[2]
neighbourThirdOk(dims, val) == val < dims[1] * dims[2]

\* mutant: the row boundary is not tested going down the index
neighbourForthOk_NoRowCheck(dims, cell) == TRUE
neighbourForthOk(dims, cell) == cell % dims[1] # 0

neighbour(d, dims, cell) ==
    CASE d = First -> checked_sub(cell, dims[1])
      [] d = Second ->
            LET o == checked_add(cell, 1)
            IN  Filter(o, neighbourSecondOk(dims, Unwrap(o)))
      [] d = Third ->
            LET o == checked_add(cell, dims[1])
            IN  Filter(o, neighbourThirdOk(dims, Unwrap(o)))
      [] d = Forth ->
            LET o == checked_sub(cell, 1)
            IN  Filter(o, neighbourForthOk(dims, cell))

between(dims, f, t) ==
    LET on == checked_sub(f, dims[1])
        os == checked_add(f, dims[1])
        oe == checked_add(f, 1)
        ow == checked_sub(f, 1)
        n  == Filter(on, Unwrap(on) = t)
        s  == Filter(os, Unwrap(os) = t)
        e  == Filter(oe, Unwrap(oe) = t /\ t % dims[1] # 0)
        w  == Filter(ow, Unwrap(ow) = t /\ f % dims[1] # 0)
    IN  IF IsSome(n) THEN Some(First)
        ELSE IF IsSome(s) THEN Some(Third)
        ELSE IF IsSome(e) THEN Some(Second)
        ELSE IF IsSome(w) THEN Some(Forth)
        ELSE None

(***************************************************************************)
(* geometry.rs                                                             *)
(***************************************************************************)
row_and_col(dims, idx) == <<idx \div dims[1], idx % dims[1]>>

Max2(a, b) == IF a >= b THEN a ELSE b
Min2(a, b) == IF a <= b THEN a ELSE b

taxicab_distance(dims, f, t) ==
    LET a == row_and_col(dims, f)
        b == row_and_col(dims, t)
    IN  (Max2(a[1], b[1]) - Min2(a[1], b[1])) + (Max2(a[2], b[2]) - Min2(a[2], b[2]))

(***************************************************************************)
(* lib.rs: Cell, CellSolution                                              *)
(***************************************************************************)
CellSolutionDefault == [from |-> FALSE, to |-> FALSE, previous |-> None, result |-> FALSE]

RECURSIVE FoldWalls(_, _)
FoldWalls(i, accumulator) ==
    IF i > Len(DIRECTIONS) THEN accumulator
    ELSE FoldWalls(i + 1, accumulator + DIRECTIONS[i])

CellDefault == [walls |-> FoldWalls(1, 0), walk |-> None, solution |-> CellSolutionDefault]

\* walls & direction > 0, for a one-bit direction
has_wall(cell, d) == (cell.walls \div d) % 2 = 1
\* walls &= !direction
remove_wall(cell, d) == IF has_wall(cell, d) THEN [cell EXCEPT !.walls = @ - d] ELSE cell

\* vec![Cell::default(); n]
NewCells(n) == [i \in 0..(n - 1) |-> CellDefault]
CellsLen(cs) == Cardinality(DOMAIN cs)

(***************************************************************************)
(* Vec used as a stack: the top is the last element.                       *)
(***************************************************************************)
Top(stack) == stack[Len(stack)]
Pop(stack) == SubSeq(stack, 1, Len(stack) - 1)

\* DIRECTIONS.iter().filter_map(|direction| direction.neighbour(dimensions, cell))
Neighbours(dims, cell) ==
    LET ds == SelectSeq(DIRECTIONS, LAMBDA d : IsSome(neighbour(d, dims, cell)))
    IN  [i \in 1..Len(ds) |-> Unwrap(neighbour(ds[i], dims, cell))]

\* the outcome of one step call: the algorithm's state, the grid, and what the call
\* did: "true" / "false" (its return value), "panic" or "hang"
Outcome(alg, cs, ret) == [alg |-> alg, cells |-> cs, ret |-> ret]

(***************************************************************************)
(* generate/randomised_depth_first_search.rs                               *)
(***************************************************************************)
WALK == 0

GenDfsDefault == [kind |-> "RandomisedDepthFirstSearch", initialised |-> FALSE, stack |-> <<>>]

\* mutant: the wall of the neighbour is removed in the direction of the move, not
\* in the direction facing the cell
GenDfsRemoveWalls_SameDirection(cs, cell, nb, direction) ==
    [cs EXCEPT ![cell] = remove_wall(@, direction), ![nb] = remove_wall(@, direction)]

GenDfsRemoveWalls(cs, cell, nb, direction) ==
    CASE direction = First ->
            [cs EXCEPT ![cell] = remove_wall(@, First), ![nb] = remove_wall(@, Third)]
      [] direction = Second ->
            [cs EXCEPT ![cell] = remove_wall(@, Second), ![nb] = remove_wall(@, Forth)]
      [] direction = Third ->
            [cs EXCEPT ![cell] = remove_wall(@, Third), ![nb] = remove_wall(@, First)]
      [] direction = Forth ->
            [cs EXCEPT ![cell] = remove_wall(@, Forth), ![nb] = remove_wall(@, Second)]

\* mutant: the carver also picks neighbours that already carry a walk tag
GenDfsNeighbours_AllowsTagged(dims, cs, cell) ==
    Neighbours(dims, cell)

\* unvisited neighbours of cell
GenDfsNeighbours(dims, cs, cell) ==
    SelectSeq(Neighbours(dims, cell), LAMBDA n : cs[n].walk = None)

\* mutant: the start cell is also marked as the solution's from cell
GenDfsStart_MarksFrom(g, cs, f) ==
    Outcome([g EXCEPT !.initialised = TRUE, !.stack = Append(@, f)],
            [cs EXCEPT ![f].walk = Some(WALK), ![f].solution.from = TRUE],
            "true")

\* the first call: select a random from cell
GenDfsStart(g, cs, f) ==
    Outcome([g EXCEPT !.initialised = TRUE, !.stack = Append(@, f)],
            [cs EXCEPT ![f].walk = Some(WALK)],
            "true")

\* mutant: the reset also clears the walk tags of the grid
GenDfsFinish_ClearsTags(g, cs) ==
    Outcome([g EXCEPT !.initialised = FALSE, !.stack = <<>>],
            [i \in DOMAIN cs |-> [cs[i] EXCEPT !.walk = None]],
            "false")

\* the end of the algorithm: reset data
GenDfsFinish(g, cs) ==
    Outcome([g EXCEPT !.initialised = FALSE, !.stack = <<>>], cs, "false")

\* mutant: the popped cell is not pushed back, so the search cannot backtrack to it
GenDfsCarve_NoPushBack(g, dims, cs, stack, cell, nb) ==
    LET tagged == [cs EXCEPT ![nb].walk = Some(WALK)]
        dir == between(dims, cell, nb)
    IN  IF IsSome(dir)
        THEN Outcome([g EXCEPT !.stack = stack \o <<nb>>],
                     GenDfsRemoveWalls(tagged, cell, nb, Unwrap(dir)),
                     "true")
        ELSE Outcome([g EXCEPT !.stack = stack], tagged, "panic")

\* carve from cell (popped, the stack is what is left) to the picked neighbour nb
GenDfsCarve(g, dims, cs, stack, cell, nb) ==
    LET tagged == [cs EXCEPT ![nb].walk = Some(WALK)]
        dir == between(dims, cell, nb)
    IN  IF IsSome(dir)
        THEN Outcome([g EXCEPT !.stack = stack \o <<cell, nb>>],
                     GenDfsRemoveWalls(tagged, cell, nb, Unwrap(dir)),
                     "true")
        ELSE Outcome([g EXCEPT !.stack = stack], tagged, "panic")

\* the backtracking loop: every outcome of it, over the random pick of a neighbour
RECURSIVE GenDfsLoop(_, _, _, _)
GenDfsLoop(g, dims, cs, stack) ==
    IF stack = <<>> THEN {GenDfsFinish(g, cs)}
    ELSE LET cell == Top(stack)
             neighbours == GenDfsNeighbours(dims, cs, cell)
         IN  IF Len(neighbours) = 0 THEN GenDfsLoop(g, dims, cs, Pop(stack))
             ELSE {GenDfsCarve(g, dims, cs, Pop(stack), cell, neighbours[i]) :
                       i \in 1..Len(neighbours)}

\* RandomisedDepthFirstSearch::step (generator): the set of its outcomes
GenDfsStep(g, dims, cs) ==
    IF ~g.initialised
    THEN {GenDfsStart(g, cs, f) : f \in 0..(CellsLen(cs) - 1)}
    ELSE GenDfsLoop(g, dims, cs, g.stack)

(***************************************************************************)
(* generate/wilson.rs                                                      *)
(***************************************************************************)
WilsonDefault == [kind |-> "Wilson", walk |-> None, stack |-> <<>>]

\* mutant: the wall is removed on the side of the walk's cell only
WilsonRemoveWalls_OneSide(cs, lst, nb, direction) ==
    [cs EXCEPT ![lst] = remove_wall(@, direction)]

WilsonRemoveWalls(cs, lst, nb, direction) ==
    CASE direction = First ->
            [cs EXCEPT ![lst] = remove_wall(@, First), ![nb] = remove_wall(@, Third)]
      [] direction = Second ->
            [cs EXCEPT ![lst] = remove_wall(@, Second), ![nb] = remove_wall(@, Forth)]
      [] direction = Third ->
            [cs EXCEPT ![lst] = remove_wall(@, Third), ![nb] = remove_wall(@, First)]
      [] direction = Forth ->
            [cs EXCEPT ![lst] = remove_wall(@, Forth), ![nb] = remove_wall(@, Second)]

\* the first call: a single random cell, the destination of the first walk
WilsonStart(g, cs, idx) ==
    Outcome([g EXCEPT !.walk = Some(1)], [cs EXCEPT ![idx].walk = Some(0)], "true")

\* cells.iter().enumerate().find(|(_, cell)| cell.walk.is_none())
WilsonFindUntagged(cs) ==
    LET untagged == {i \in DOMAIN cs : cs[i].walk = None}
    IN  IF untagged = {} THEN None
        ELSE Some(CHOOSE i \in untagged : \A j \in untagged : i <= j)

\* the stack is empty: the end of the algorithm, or the start of a new walk
WilsonNewWalk(g, cs, walk) ==
    LET found == WilsonFindUntagged(cs)
    IN  IF found = None
        THEN Outcome([g EXCEPT !.walk = None, !.stack = <<>>], cs, "false")
        ELSE Outcome([g EXCEPT !.stack = Append(@, Unwrap(found))],
                     [cs EXCEPT ![Unwrap(found)].walk = Some(walk)],
                     "true")

\* add cell to current walk
WilsonExtend(g, cs, walk, nb) ==
    Outcome([g EXCEPT !.stack = Append(@, nb)], [cs EXCEPT ![nb].walk = Some(walk)], "true")

\* mutant: the cells of the erased loop keep their walk tag
RECURSIVE WilsonErase_NoUntag(_, _, _, _)
WilsonErase_NoUntag(g, cs, stack, nb) ==
    IF stack = <<>> THEN Outcome([g EXCEPT !.stack = stack], cs, "panic")
    ELSE IF Top(stack) # nb
         THEN WilsonErase_NoUntag(g, cs, Pop(stack), nb)
         ELSE Outcome([g EXCEPT !.stack = stack], cs, "true")

\* encountered the current walk; erase the loop
RECURSIVE WilsonErase(_, _, _, _)
WilsonErase(g, cs, stack, nb) ==
    IF stack = <<>> THEN Outcome([g EXCEPT !.stack = stack], cs, "panic")
    ELSE IF Top(stack) # nb
         THEN WilsonErase(g, [cs EXCEPT ![Top(stack)].walk = None], Pop(stack), nb)
         ELSE Outcome([g EXCEPT !.stack = stack], cs, "true")

\* encountered a previous walk; complete the current walk
RECURSIVE WilsonCommit(_, _, _, _, _)
WilsonCommit(g, dims, cs, stack, nb) ==
    IF stack = <<>> THEN Outcome([g EXCEPT !.stack = stack], cs, "true")
    ELSE LET lst == Top(stack)
             dir == between(dims, lst, nb)
         IN  IF IsSome(dir)
             THEN WilsonCommit(g, dims, WilsonRemoveWalls(cs, lst, nb, Unwrap(dir)),
                               Pop(stack), lst)
             ELSE Outcome([g EXCEPT !.stack = Pop(stack)], cs, "panic")

\* continue the current walk from the top of the stack to the picked neighbour nb
WilsonContinue(g, dims, cs, walk, nb) ==
    IF cs[nb].walk = None THEN WilsonExtend(g, cs, walk, nb)
    ELSE IF walk = Unwrap(cs[nb].walk) THEN WilsonErase(g, cs, g.stack, nb)
    ELSE WilsonCommit([g EXCEPT !.walk = Some(walk + 1)], dims, cs, g.stack, nb)

\* Wilson::step: the set of its outcomes
WilsonStep(g, dims, cs) ==
    IF g.walk = None
    THEN {WilsonStart(g, cs, idx) : idx \in 0..(CellsLen(cs) - 1)}
    ELSE LET walk == Unwrap(g.walk)
         IN  IF g.stack = <<>> THEN {WilsonNewWalk(g, cs, walk)}
             ELSE LET neighbours == Neighbours(dims, Top(g.stack))
                  IN  IF Len(neighbours) = 0 THEN {Outcome(g, cs, "panic")}
                      ELSE {WilsonContinue(g, dims, cs, walk, neighbours[i]) :
                                i \in 1..Len(neighbours)}

\* Generator::step, dispatched on the boxed generator
GeneratorStep(g, dims, cs) ==
    IF g.kind = "Wilson" THEN WilsonStep(g, dims, cs) ELSE GenDfsStep(g, dims, cs)

(***************************************************************************)
(* The end of every solver: flag the path from `to` back to `from` along   *)
(* the back-pointers.  The loop                                            *)
(*     while cell != from { result = true; cell = previous.expect(..) }    *)
(* panics on a missing back-pointer and never ends on a cycle of           *)
(* back-pointers that misses `from`.                                       *)
(***************************************************************************)
\* mutant: the loop moves to the previous cell before it flags, so that it flags
\* `from` and leaves `to` unflagged
RECURSIVE FlagPath_FlagsPrevious(_, _, _, _)
FlagPath_FlagsPrevious(cs, f, cell, seen) ==
    IF cell = f THEN [cells |-> cs, ret |-> "false"]
    ELSE IF cell \in seen THEN [cells |-> cs, ret |-> "hang"]
    ELSE LET previous == cs[cell].solution.previous
         IN  IF previous = None THEN [cells |-> cs, ret |-> "panic"]
             ELSE FlagPath_FlagsPrevious(
                      [cs EXCEPT ![Unwrap(previous)].solution.result = TRUE],
                      f, Unwrap(previous), seen \cup {cell})

RECURSIVE FlagPath(_, _, _, _)
FlagPath(cs, f, cell, seen) ==
    IF cell = f THEN [cells |-> cs, ret |-> "false"]
    ELSE IF cell \in seen THEN [cells |-> cs, ret |-> "hang"]
    ELSE LET flagged == [cs EXCEPT ![cell].solution.result = TRUE]
             previous == cs[cell].solution.previous
         IN  IF previous = None THEN [cells |-> flagged, ret |-> "panic"]
             ELSE FlagPath(flagged, f, Unwrap(previous), seen \cup {cell})

\* mutant: the cells that have a back-pointer are not excluded
AccessibleNeighbours_AllowsVisited(dims, cs, f, cell) ==
    LET ds == SelectSeq(DIRECTIONS, LAMBDA d : ~has_wall(cs[cell], d))
        open == SelectSeq(ds, LAMBDA d : IsSome(neighbour(d, dims, cell)))
        nbs == [i \in 1..Len(open) |-> Unwrap(neighbour(open[i], dims, cell))]
    IN  SelectSeq(nbs, LAMBDA n : n # f)

\* mutant: `from` is not excluded from the neighbours to visit
AccessibleNeighbours_AllowsFrom(dims, cs, f, cell) ==
    LET ds == SelectSeq(DIRECTIONS, LAMBDA d : ~has_wall(cs[cell], d))
        open == SelectSeq(ds, LAMBDA d : IsSome(neighbour(d, dims, cell)))
        nbs == [i \in 1..Len(open) |-> Unwrap(neighbour(open[i], dims, cell))]
    IN  SelectSeq(nbs, LAMBDA n : cs[n].solution.previous = None)

\* accessible unvisited neighbours (A* and the depth first search solver)
AccessibleNeighbours(dims, cs, f, cell) ==
    LET ds == SelectSeq(DIRECTIONS, LAMBDA d : ~has_wall(cs[cell], d))
        open == SelectSeq(ds, LAMBDA d : IsSome(neighbour(d, dims, cell)))
        nbs == [i \in 1..Len(open) |-> Unwrap(neighbour(open[i], dims, cell))]
    IN  SelectSeq(nbs, LAMBDA n : n # f /\ cs[n].solution.previous = None)

(***************************************************************************)
(* solve/a_star_search.rs                                                  *)
(***************************************************************************)
AStarZeroDefault ==
    [kind |-> "AStarZero", initialised |-> FALSE, distances |-> <<>>, fringe |-> <<>>]
AStarTaxicabDefault ==
    [kind |-> "AStarTaxicab", initialised |-> FALSE, distances |-> <<>>, fringe |-> <<>>]

\* T::heuristic
heuristic(kind, dims, f, t) ==
    IF kind = "AStarTaxicab" THEN taxicab_distance(dims, f, t) ELSE 0

AStarSearchState(cost, cell) == [cost |-> cost, cell |-> cell]

\* usize::cmp
UsizeCmp(a, b) == IF a < b THEN "Less" ELSE IF a = b THEN "Equal" ELSE "Greater"

\* Ord for AStarSearchState: other.cost.cmp(&self.cost).then_with(|| self.cell.cmp(&other.cell))
cmp(self, other) ==
    LET byCost == UsizeCmp(other.cost, self.cost)
    IN  IF byCost # "Equal" THEN byCost ELSE UsizeCmp(self.cell, other.cell)

\* BinaryHeap: a multiset of entries, kept here as a sequence in descending order,
\* so that the head is the entry pop() returns (a greatest one)
RECURSIVE HeapPush(_, _)
HeapPush(heap, e) ==
    IF heap = <<>> THEN <<e>>
    ELSE IF cmp(e, Head(heap)) = "Less" THEN <<Head(heap)>> \o HeapPush(Tail(heap), e)
    ELSE <<e>> \o heap

HeapPeek(heap) == Head(heap)
\* mutant: pop also drops the other entries of the popped entry's cost
HeapPop_DropsTies(heap) == SelectSeq(Tail(heap), LAMBDA e : e.cost # Head(heap).cost)
\* mutant: pop returns the greatest entry and leaves it on the heap
HeapPop_KeepsEntry(heap) == heap
HeapPop(heap) == Tail(heap)

\* Vec::resize(len, None) of the distance table, a function 0..len-1 -> Option
Resize(v, len) == [i \in 0..(len - 1) |-> IF i \in DOMAIN v THEN v[i] ELSE None]

\* the first call
AStarStart(s, dims, cs, f, t) ==
    LET resized == Resize(s.distances, CellsLen(cs))
    IN  IF f \notin DOMAIN resized
        THEN Outcome([s EXCEPT !.distances = resized], cs, "panic")
        ELSE Outcome([s EXCEPT !.distances = [resized EXCEPT ![f] = Some(0)],
                               !.fringe = HeapPush(@, AStarSearchState(
                                              heuristic(s.kind, dims, f, t), f)),
                               !.initialised = TRUE],
                     cs, "true")

\* mutant: the distance table is not cleared
AStarFinish_KeepsDistances(s, cs, f, t) ==
    LET path == FlagPath(cs, f, t, {})
    IN  IF path.ret = "false"
        THEN Outcome([s EXCEPT !.initialised = FALSE, !.fringe = <<>>], path.cells, "false")
        ELSE Outcome(s, path.cells, path.ret)

\* the end of the algorithm: flag path and reset data
AStarFinish(s, cs, f, t) ==
    LET path == FlagPath(cs, f, t, {})
    IN  IF path.ret = "false"
        THEN Outcome([s EXCEPT !.initialised = FALSE, !.distances = <<>>, !.fringe = <<>>],
                     path.cells, "false")
        ELSE Outcome(s, path.cells, path.ret)

\* for neighbour in neighbours { ... }, from the i-th neighbour on
RECURSIVE AStarRelax(_, _, _, _, _, _, _)
AStarRelax(s, dims, cs, t, cell, neighbours, i) ==
    IF i > Len(neighbours) THEN Outcome(s, cs, "true")
    ELSE IF s.distances[cell] = None THEN Outcome(s, cs, "panic")
    ELSE LET nb == neighbours[i]
             distance == Unwrap(s.distances[cell]) + 1
         IN  IF s.distances[nb] = None \/ distance < Unwrap(s.distances[nb])
             THEN AStarRelax(
                      [s EXCEPT !.distances[nb] = Some(distance),
                                !.fringe = HeapPush(@, AStarSearchState(
                                               distance + heuristic(s.kind, dims, nb, t), nb))],
                      dims, [cs EXCEPT ![nb].solution.previous = Some(cell)],
                      t, cell, neighbours, i + 1)
             ELSE AStarRelax(s, dims, cs, t, cell, neighbours, i + 1)

\* a popped cell that is not `to`: housekeeping, then its neighbours
AStarExpand(s, dims, cs, f, t, cell) ==
    LET retained == SelectSeq(s.fringe, LAMBDA state : state.cell # cell)
    IN  AStarRelax([s EXCEPT !.fringe = retained], dims, cs, t, cell,
                   AccessibleNeighbours(dims, cs, f, cell), 1)

\* mutant: an empty fringe ends the search with false
AStarStep_EmptyFringeReturnsFalse(s, dims, cs, f, t) ==
    IF ~s.initialised THEN {AStarStart(s, dims, cs, f, t)}
    ELSE IF s.fringe = <<>> THEN {Outcome(s, cs, "false")}
    ELSE LET cell == HeapPeek(s.fringe).cell
             popped == [s EXCEPT !.fringe = HeapPop(@)]
         IN  IF cell = t THEN {AStarFinish(popped, cs, f, t)}
             ELSE {AStarExpand(popped, dims, cs, f, t, cell)}

\* AStarSearch::step
AStarStep(s, dims, cs, f, t) ==
    IF ~s.initialised THEN {AStarStart(s, dims, cs, f, t)}
    ELSE IF s.fringe = <<>> THEN {Outcome(s, cs, "panic")}
    ELSE LET cell == HeapPeek(s.fringe).cell
             popped == [s EXCEPT !.fringe = HeapPop(@)]
         IN  IF cell = t THEN {AStarFinish(popped, cs, f, t)}
             ELSE {AStarExpand(popped, dims, cs, f, t, cell)}

(***************************************************************************)
(* solve/randomised_depth_first_search.rs                                  *)
(***************************************************************************)
SolveDfsDefault == [kind |-> "RandomisedDepthFirstSearch", initialised |-> FALSE, stack |-> <<>>]

\* the end of the algorithm: flag path and reset data
SolveDfsFinish(s, cs, f, t) ==
    LET path == FlagPath(cs, f, t, {})
    IN  IF path.ret = "false"
        THEN Outcome([s EXCEPT !.initialised = FALSE, !.stack = <<>>], path.cells, "false")
        ELSE Outcome(s, path.cells, path.ret)

\* mutant: the cell descended to is flagged as a result at once
SolveDfsDescend_FlagsResult(s, cs, stack, cell, nb) ==
    Outcome([s EXCEPT !.stack = stack \o <<cell, nb>>],
            [cs EXCEPT ![nb].solution.previous = Some(cell), ![nb].solution.result = TRUE],
            "true")

\* descend from cell (popped, the stack is what is left) to the picked neighbour nb
SolveDfsDescend(s, cs, stack, cell, nb) ==
    Outcome([s EXCEPT !.stack = stack \o <<cell, nb>>],
            [cs EXCEPT ![nb].solution.previous = Some(cell)],
            "true")

\* the backtracking loop.  An empty stack is refilled with `from`; when `from` itself
\* has nothing left to visit the loop pops and refills for ever.
RECURSIVE SolveDfsLoop(_, _, _, _, _, _, _)
SolveDfsLoop(s, dims, cs, f, t, stack, refilled) ==
    IF stack = <<>>
    THEN IF refilled THEN {Outcome([s EXCEPT !.stack = <<>>], cs, "hang")}
         ELSE SolveDfsLoop(s, dims, cs, f, t, <<f>>, TRUE)
    ELSE LET cell == Top(stack)
             neighbours == AccessibleNeighbours(dims, cs, f, cell)
         IN  IF cell = t THEN {SolveDfsFinish([s EXCEPT !.stack = Pop(stack)], cs, f, t)}
             ELSE IF Len(neighbours) = 0
                  THEN SolveDfsLoop(s, dims, cs, f, t, Pop(stack), refilled)
                  ELSE {SolveDfsDescend(s, cs, Pop(stack), cell, neighbours[i]) :
                            i \in 1..Len(neighbours)}

\* RandomisedDepthFirstSearch::step (solver)
SolveDfsStep(s, dims, cs, f, t) ==
    IF ~s.initialised THEN {Outcome([s EXCEPT !.initialised = TRUE], cs, "true")}
    ELSE SolveDfsLoop(s, dims, cs, f, t, s.stack, FALSE)

(***************************************************************************)
(* solve/wall_follower_search.rs                                           *)
(***************************************************************************)
WallFollowerLeftDefault == [kind |-> "WallFollowerLeft", cell_and_direction |-> None]
WallFollowerRightDefault == [kind |-> "WallFollowerRight", cell_and_direction |-> None]

\* mutant: the scan starts straight ahead
initial_Ahead(kind, direction) == direction

\* Right::initial / Left::initial
initial(kind, direction) ==
    IF kind = "WallFollowerRight" THEN next(direction) ELSE prev(direction)

\* mutant: the scan keeps turning the way of the initial turn
subsequent_SameAsInitial(kind, direction) == initial(kind, direction)

\* Right::subsequent / Left::subsequent
subsequent(kind, direction) ==
    IF kind = "WallFollowerRight" THEN prev(direction) ELSE next(direction)

\* the scan for an open wall: the direction found, or None when the scan comes back
\* to a direction it has tried (the loop then never ends)
RECURSIVE WallFollowerScan(_, _, _, _)
WallFollowerScan(kind, cell, direction, tried) ==
    IF ~has_wall(cell, direction) THEN Some(direction)
    ELSE IF direction \in tried THEN None
    ELSE WallFollowerScan(kind, cell, subsequent(kind, direction), tried \cup {direction})

\* the end of the algorithm: flag path and reset data
WallFollowerFinish(s, cs, f, t) ==
    LET path == FlagPath(cs, f, t, {})
    IN  IF path.ret = "false"
        THEN Outcome([s EXCEPT !.cell_and_direction = None], path.cells, "false")
        ELSE Outcome(s, path.cells, path.ret)

\* mutant: every move records a back-pointer and ends the call
WallFollowerLoop_AlwaysRecords(s, dims, cs, f, t, seen) ==
    IF s.cell_and_direction = None
    THEN Outcome([s EXCEPT !.cell_and_direction = Some(<<f, First>>)], cs, "true")
    ELSE LET cell == Unwrap(s.cell_and_direction)[1]
             facing == Unwrap(s.cell_and_direction)[2]
         IN  IF cell = t THEN WallFollowerFinish(s, cs, f, t)
             ELSE LET found == WallFollowerScan(s.kind, cs[cell], initial(s.kind, facing), {})
                  IN  IF found = None THEN Outcome(s, cs, "hang")
                      ELSE LET nb == neighbour(Unwrap(found), dims, cell)
                           IN  IF nb = None THEN Outcome(s, cs, "panic")
                               ELSE Outcome(
                                        [s EXCEPT !.cell_and_direction =
                                            Some(<<Unwrap(nb), Unwrap(found)>>)],
                                        [cs EXCEPT ![Unwrap(nb)].solution.previous = Some(cell)],
                                        "true")

\* the loop of step, from a walker at cell_and_direction; seen holds the walker's
\* positions of this call so far (a repeated one means the loop never ends)
RECURSIVE WallFollowerLoop(_, _, _, _, _, _)
WallFollowerLoop(s, dims, cs, f, t, seen) ==
    IF s.cell_and_direction = None
    THEN Outcome([s EXCEPT !.cell_and_direction = Some(<<f, First>>)], cs, "true")
    ELSE LET cell == Unwrap(s.cell_and_direction)[1]
             facing == Unwrap(s.cell_and_direction)[2]
         IN  IF cell = t THEN WallFollowerFinish(s, cs, f, t)
             ELSE IF <<cell, facing>> \in seen THEN Outcome(s, cs, "hang")
             ELSE LET found == WallFollowerScan(s.kind, cs[cell], initial(s.kind, facing), {})
                  IN  IF found = None THEN Outcome(s, cs, "hang")
                      ELSE LET direction == Unwrap(found)
                               nb == neighbour(direction, dims, cell)
                           IN  IF nb = None THEN Outcome(s, cs, "panic")
                               ELSE LET moved == [s EXCEPT !.cell_and_direction =
                                                     Some(<<Unwrap(nb), direction>>)]
                                    IN  IF cs[Unwrap(nb)].solution.previous = None
                                        THEN Outcome(moved,
                                                 [cs EXCEPT ![Unwrap(nb)].solution.previous =
                                                     Some(cell)],
                                                 "true")
                                        ELSE WallFollowerLoop(moved, dims, cs, f, t,
                                                 seen \cup {<<cell, facing>>})

\* WallFollowerSearch::step
WallFollowerStep(s, dims, cs, f, t) == {WallFollowerLoop(s, dims, cs, f, t, {})}

\* Solver::step, dispatched on the boxed solver
SolverStep(s, dims, cs, f, t) ==
    CASE s.kind \in {"AStarZero", "AStarTaxicab"} -> AStarStep(s, dims, cs, f, t)
      [] s.kind = "RandomisedDepthFirstSearch" -> SolveDfsStep(s, dims, cs, f, t)
      [] s.kind \in {"WallFollowerLeft", "WallFollowerRight"} ->
            WallFollowerStep(s, dims, cs, f, t)

(***************************************************************************)
(* lib.rs, main: the driver.                                               *)
(***************************************************************************)
\* the small grids: Generate clamps width and height to at least 2
SmallGrids == {d \in (2..MaxCells) \X (2..MaxCells) : d[1] * d[2] <= MaxCells}

\* the 3 x 3 grid, the smallest with a cell that has four neighbours
ScenarioGrids == {<<3, 3>>}

\* on the grids of ScenarioGrids the random draw of from and to, which in the code
\* gives any pair from # to, is explored for the first MaxScenarioPairs pairs of
\* ScenarioPairList only (corner to corner, from the centre, to the centre, ...)
MaxScenarioPairs == 3
ScenarioPairList == <<<<0, 8>>, <<4, 6>>, <<5, 4>>, <<1, 7>>, <<8, 0>>, <<2, 3>>>>
ScenarioPairs ==
    {ScenarioPairList[i] : i \in 1..Min2(MaxScenarioPairs, Len(ScenarioPairList))}

\* the grids of the model
Grids == SmallGrids \cup ScenarioGrids

\* generators.get(name)(), solvers.get(name)(): the registries of constructors
NewGenerator(name) ==
    IF name = "Wilson's algorithm" THEN WilsonDefault ELSE GenDfsDefault

GeneratorNames == {"Randomised depth first search algorithm", "Wilson's algorithm"}

NewSolver(name) ==
    CASE name = "A* algorithm (using Taxicab distance heuristic)" -> AStarTaxicabDefault
      [] name = "Dijkstra's algorithm (A* algorithm without heuristic)" -> AStarZeroDefault
      [] name = "Randomised depth first search algorithm" -> SolveDfsDefault
      [] name = "Wall follower (left turn)" -> WallFollowerLeftDefault
      [] name = "Wall follower (right turn)" -> WallFollowerRightDefault

SolverNames ==
    {"A* algorithm (using Taxicab distance heuristic)",
     "Dijkstra's algorithm (A* algorithm without heuristic)",
     "Randomised depth first search algorithm",
     "Wall follower (left turn)",
     "Wall follower (right turn)"}

\* a panic or an endless loop inside a callback ends the program
Running == last.ret \notin {"panic", "hang"}

\* probe when no grid-addressing function has been applied
NoProbe == [op |-> "none", dims |-> <<1, 1>>, a |-> 0, b |-> 0, d |-> First, result |-> None]

\* (cells[*from].solution.from, cells[*to].solution.to) = (true, true)
SeedFromTo(cs, f, t) ==
    [[cs EXCEPT ![f].solution.from = TRUE] EXCEPT ![t].solution.to = TRUE]

\* two random indexes, the second drawn again while it equals the first
FromToPairs(cs) == {p \in (DOMAIN cs) \X (DOMAIN cs) : p[1] # p[2]}

\* the draws of from and to the model explores on a grid: every pair from # to on
\* the grids of at most MaxCells cells, the pairs of ScenarioPairs on ScenarioGrids
FromToDraws(dims, cs) ==
    IF dims \in ScenarioGrids THEN FromToPairs(cs) \cap ScenarioPairs ELSE FromToPairs(cs)

\* mutant: the back-pointers survive the clearing
ClearSolution_KeepsPrevious(cs) ==
    [i \in DOMAIN cs |->
        [cs[i] EXCEPT !.solution.from = FALSE, !.solution.to = FALSE, !.solution.result = FALSE]]

\* mutant: the from and to flags survive the clearing
ClearSolution_KeepsEndpoints(cs) ==
    [i \in DOMAIN cs |-> [cs[i] EXCEPT !.solution.previous = None, !.solution.result = FALSE]]

\* for cell in &mut *cells { cell.solution = CellSolution::default(); }
ClearSolution(cs) == [i \in DOMAIN cs |-> [cs[i] EXCEPT !.solution = CellSolutionDefault]]

\* the state main leaves: the default grid (20 x 20 in the program, a grid of the
\* model here), the first generator and the first solver of the registries
Init ==
    /\ phase = "Generate"
    /\ dimensions \in Grids
    /\ cells = NewCells(dimensions[1] * dimensions[2])
    /\ generator = NewGenerator("Randomised depth first search algorithm")
    /\ solver = NewSolver("A* algorithm (using Taxicab distance heuristic)")
    /\ from = 0
    /\ to = 0
    /\ solveDisabled = TRUE
    /\ last = [call |-> "main", ret |-> "none"]
    /\ calls = 0
    /\ probe = NoProbe

\* the value of a text input: a sequence of characters
DigitChars == <<"0", "1", "2", "3", "4", "5", "6", "7", "8", "9">>

\* the digit a character stands for, -1 for any other character
DigitValue(c) ==
    IF \E i \in 1..Len(DigitChars) : DigitChars[i] = c
    THEN (CHOOSE i \in 1..Len(DigitChars) : DigitChars[i] = c) - 1
    ELSE -1

RECURSIVE ParseDigits(_, _)
ParseDigits(s, acc) ==
    IF s = <<>> THEN Some(acc)
    ELSE IF DigitValue(Head(s)) < 0 THEN None
    ELSE ParseDigits(Tail(s), acc * 10 + DigitValue(Head(s)))

\* str::parse::<usize>, .ok(): an optional "+" and at least one decimal digit, no
\* other character (the values of the model stay far below usize::MAX)
parse(s) ==
    IF s = <<>> THEN None
    ELSE LET digits == IF Head(s) = "+" THEN Tail(s) ELSE s
         IN  IF digits = <<>> THEN None ELSE ParseDigits(digits, 0)

\* Result::unwrap_or
unwrap_or(o, default) == IF IsSome(o) THEN Unwrap(o) ELSE default

\* mutant: the parsed value is not clamped
GenerateDimension_NoClamp(value, current) == unwrap_or(parse(value), current)

\* input.value().parse().unwrap_or(current).max(2)
GenerateDimension(value, current) == Max2(unwrap_or(parse(value), current), 2)

\* what the user may have typed into a size input: nothing, a letter, a negative
\* number, a number with a sign or with a leading zero, and every one-digit number
\* up to MaxCells
InputValues ==
    {<<>>, <<"a">>, <<"-", "1">>, <<"+", "3">>, <<"0", "2">>, <<"2", "x">>}
        \cup {<<DigitChars[n + 1]>> : n \in 0..Min2(MaxCells, 9)}

\* the dimensions a Generate click may set, among those the model explores: at most
\* MaxCells cells, or a grid of ScenarioGrids
GenerateDimensions(current) ==
    {d \in {GenerateDimension(v, current[1]) : v \in InputValues}
            \X {GenerateDimension(v, current[2]) : v \in InputValues} :
        d[1] * d[2] <= MaxCells \/ d \in ScenarioGrids}

\* the generate button's click
ClickGenerate ==
    /\ Running
    /\ \E dims \in GenerateDimensions(dimensions), name \in GeneratorNames :
        /\ dimensions' = dims
        /\ cells' = NewCells(dims[1] * dims[2])
        /\ generator' = NewGenerator(name)
    /\ solveDisabled' = TRUE
    /\ phase' = "Generate"
    /\ last' = [call |-> "generate", ret |-> "none"]
    /\ calls' = 0
    /\ UNCHANGED <<solver, from, to, probe>>

\* the solve button's click, the selected solver being one of names; a disabled
\* button receives no click
ClickSolveWith(names) ==
    /\ Running
    /\ ~solveDisabled
    /\ \E checked \in BOOLEAN, name \in names :
       \E p \in (IF checked THEN FromToDraws(dimensions, cells) ELSE {<<from, to>>}) :
        /\ from' = p[1]
        /\ to' = p[2]
        /\ cells' = SeedFromTo(ClearSolution(cells), p[1], p[2])
        /\ solver' = NewSolver(name)
    /\ phase' = "Solve"
    /\ last' = [call |-> "solve", ret |-> "none"]
    /\ calls' = 0
    /\ UNCHANGED <<dimensions, generator, solveDisabled, probe>>

\* mutant: the solve button takes clicks while it is disabled
ClickSolve_IgnoresDisabled ==
    /\ Running
    /\ \E checked \in BOOLEAN, name \in SolverNames :
       \E p \in (IF checked THEN FromToDraws(dimensions, cells) ELSE {<<from, to>>}) :
        /\ from' = p[1]
        /\ to' = p[2]
        /\ cells' = SeedFromTo(ClearSolution(cells), p[1], p[2])
        /\ solver' = NewSolver(name)
    /\ phase' = "Solve"
    /\ last' = [call |-> "solve", ret |-> "none"]
    /\ calls' = 0
    /\ UNCHANGED <<dimensions, generator, solveDisabled, probe>>

\* the solve button's click
ClickSolve == ClickSolveWith(SolverNames)

\* the generators whose step calls are counted: a run of the depth first search
\* carver has a fixed number of calls, a random walk of Wilson's algorithm has no
\* bound on its number of calls
CountsCalls(g) == g.kind = "RandomisedDepthFirstSearch"

\* the animation frame in Phase::Generate
TickGenerate ==
    /\ Running
    /\ phase = "Generate"
    /\ \E o \in GeneratorStep(generator, dimensions, cells) :
        /\ generator' = o.alg
        /\ last' = [call |-> "Generator::step", ret |-> o.ret]
        /\ IF o.ret = "false"
           THEN \E p \in FromToDraws(dimensions, o.cells), name \in SolverNames :
                    /\ from' = p[1]
                    /\ to' = p[2]
                    /\ cells' = SeedFromTo(o.cells, p[1], p[2])
                    /\ solver' = NewSolver(name)
                    /\ solveDisabled' = FALSE
                    /\ phase' = "Solve"
                    /\ calls' = 0
           ELSE /\ cells' = o.cells
                /\ calls' = IF CountsCalls(generator) THEN calls + 1 ELSE calls
                /\ UNCHANGED <<from, to, solver, solveDisabled, phase>>
    /\ UNCHANGED <<dimensions, probe>>

\* mutant: the phase stays Solve when the solver is done
TickSolve_NeverCompletes ==
    /\ Running
    /\ phase = "Solve"
    /\ \E o \in SolverStep(solver, dimensions, cells, from, to) :
        /\ solver' = o.alg
        /\ cells' = o.cells
        /\ last' = [call |-> "Solver::step", ret |-> o.ret]
    /\ calls' = IF last'.ret = "false" THEN 0 ELSE calls + 1
    /\ UNCHANGED <<phase, dimensions, generator, from, to, solveDisabled, probe>>

\* the animation frame in Phase::Solve
TickSolve ==
    /\ Running
    /\ phase = "Solve"
    /\ \E o \in SolverStep(solver, dimensions, cells, from, to) :
        /\ solver' = o.alg
        /\ cells' = o.cells
        /\ last' = [call |-> "Solver::step", ret |-> o.ret]
        /\ phase' = IF o.ret = "false" THEN "Complete" ELSE phase
    /\ calls' = calls + 1
    /\ UNCHANGED <<dimensions, generator, from, to, solveDisabled, probe>>

\* the animation frame in Phase::Complete
TickComplete ==
    /\ Running
    /\ phase = "Complete"
    /\ last' = [call |-> "tick", ret |-> "none"]
    /\ UNCHANGED <<phase, dimensions, cells, generator, solver, from, to, solveDisabled, calls, probe>>

\* a Generate click while the first maze is still being generated (the solver is
\* then the one main constructed)
ClickGenerateEarly == phase = "Generate" /\ ClickGenerate

\* One run of the program: Generate clicks until the first maze is complete, then
\* ticks alone.
Next == ClickGenerateEarly \/ TickGenerate \/ TickSolve \/ TickComplete

Spec == Init /\ [][Next]_vars

\* The driver with every click, on the grids of at most DriverMaxCells cells.
DriverInit == Init /\ dimensions[1] * dimensions[2] <= DriverMaxCells

DriverClickGenerate == ClickGenerate /\ dimensions'[1] * dimensions'[2] <= DriverMaxCells

DriverNext == DriverClickGenerate \/ ClickSolve \/ TickGenerate \/ TickSolve \/ TickComplete

SpecDriver == DriverInit /\ [][DriverNext]_vars

\* The driver with every click and with Generate clicks that change the size of the
\* grid, on the grids of height 2 and at most ResizeMaxCells cells (2 x 2 and
\* 3 x 2); the solver selected is one of ResizeSolverKinds.
ResizeMaxCells == 6

ResizeGrids == {d \in SmallGrids : d[1] * d[2] <= ResizeMaxCells /\ d[2] = 2}

ResizeSolverKinds == {"AStarTaxicab", "WallFollowerLeft"}

ResizeInit == Init /\ dimensions \in ResizeGrids

ResizeClickGenerate ==
    /\ ClickGenerate
    /\ dimensions'[1] * dimensions'[2] <= ResizeMaxCells
    /\ dimensions'[2] <= 2

ResizeClickSolve ==
    ClickSolveWith({name \in SolverNames : NewSolver(name).kind \in ResizeSolverKinds})

ResizeTickGenerate == TickGenerate /\ solver'.kind \in ResizeSolverKinds

ResizeNext ==
    \/ ResizeClickGenerate
    \/ ResizeClickSolve
    \/ ResizeTickGenerate
    \/ TickSolve
    \/ TickComplete

SpecResize == ResizeInit /\ [][ResizeNext]_vars

(***************************************************************************)
(* The grid-addressing functions of direction.rs, applied to every grid of *)
(* width and height 1..MaxSide, every cell `a` of it, every direction and  *)
(* every index `b` up to MaxSide past the end of the grid, one            *)
(* application per behaviour.                                              *)
(***************************************************************************)
DirGrids == (1..MaxSide) \X (1..MaxSide)

DirInit ==
    /\ Init
    /\ dimensions = <<2, 2>>

\* direction.neighbour(dimensions, a)
ApplyNeighbour ==
    /\ probe.op = "none"
    /\ \E dims \in DirGrids, d \in Direction :
       \E a \in 0..(dims[1] * dims[2] - 1) :
            probe' = [op |-> "neighbour", dims |-> dims, a |-> a, b |-> 0, d |-> d,
                      result |-> neighbour(d, dims, a)]
    /\ UNCHANGED <<phase, dimensions, cells, generator, solver, from, to, solveDisabled, last, calls>>

\* Direction::between(dimensions, a, b)
ApplyBetween ==
    /\ probe.op = "none"
    /\ \E dims \in DirGrids :
       \E a \in 0..(dims[1] * dims[2] - 1), b \in 0..(dims[1] * dims[2] + MaxSide) :
            probe' = [op |-> "between", dims |-> dims, a |-> a, b |-> b, d |-> First,
                      result |-> between(dims, a, b)]
    /\ UNCHANGED <<phase, dimensions, cells, generator, solver, from, to, solveDisabled, last, calls>>

DirNext == ApplyNeighbour \/ ApplyBetween

SpecDir == DirInit /\ [][DirNext]_vars

(***************************************************************************)
(* Grid addressing: C4, C5, C6 (under SpecDir).                            *)
(***************************************************************************)
InGrid(dims, idx) == idx >= 0 /\ idx < dims[1] * dims[2]

\* C4: for in-grid cells a and b, between(dimensions, a, b) = Some(d) implies
\* d.neighbour(dimensions, a) = Some(b), and d.neighbour(dimensions, a) = Some(b)
\* implies between(dimensions, a, b) = Some(d): the two are mutual inverses.
C4_NeighbourBetweenInverse ==
    /\ (probe.op = "between" /\ InGrid(probe.dims, probe.b) /\ IsSome(probe.result))
            => neighbour(Unwrap(probe.result), probe.dims, probe.a) = Some(probe.b)
    /\ (probe.op = "neighbour" /\ IsSome(probe.result))
            => between(probe.dims, probe.a, Unwrap(probe.result)) = Some(probe.d)

C4_Witness ==
    /\ probe.op = "neighbour"
    /\ probe.dims = <<3, 2>>
    /\ probe.d = Forth
    /\ probe.result = Some(3)

\* C5: between is bounds-aware: for an in-grid `from` and any index `to`, also one at
\* or beyond width*height, between returns None whenever no direction d has
\* d.neighbour(dimensions, from) = Some(to).
C5_BetweenBoundsAware ==
    (probe.op = "between"
        /\ ~\E d \in Direction : neighbour(d, probe.dims, probe.a) = Some(probe.b))
        => probe.result = None

\* the cell one step from (row, col) in direction d
StepRowCol(rc, d) ==
    CASE d = First -> <<rc[1] - 1, rc[2]>>
      [] d = Second -> <<rc[1], rc[2] + 1>>
      [] d = Third -> <<rc[1] + 1, rc[2]>>
      [] d = Forth -> <<rc[1], rc[2] - 1>>

InsideRowCol(dims, rc) == rc[1] >= 0 /\ rc[1] < dims[2] /\ rc[2] >= 0 /\ rc[2] < dims[1]

IsCorner(dims, a) ==
    LET rc == <<a \div dims[1], a % dims[1]>>
    IN  rc[1] \in {0, dims[2] - 1} /\ rc[2] \in {0, dims[1] - 1}

\* C6: neighbour returns Some(n) exactly when the cell one step in the direction
\* (First: row-1, Second: col+1, Third: row+1, Forth: col-1) is inside the grid, n
\* being its row-major index, and None otherwise; at a corner at least two
\* directions give None.
C6_NeighbourGeometry ==
    probe.op = "neighbour" =>
        LET rc == <<probe.a \div probe.dims[1], probe.a % probe.dims[1]>>
            target == StepRowCol(rc, probe.d)
        IN  /\ probe.result =
                    IF InsideRowCol(probe.dims, target)
                    THEN Some(target[1] * probe.dims[1] + target[2])
                    ELSE None
            /\ IsCorner(probe.dims, probe.a) =>
                    Cardinality({d \in Direction :
                        neighbour(d, probe.dims, probe.a) = None}) >= 2

C6_Witness ==
    /\ probe.op = "neighbour"
    /\ probe.dims = <<3, 4>>
    /\ probe.a = 11
    /\ probe.d = Third
    /\ probe.result = None

(***************************************************************************)
(* The wall-free graph of a grid: its vertices are the cells, its edges    *)
(* the removed walls.                                                      *)
(***************************************************************************)
\* the cells a reaches through one of its own removed walls
Open(dims, cs, a) ==
    {Unwrap(neighbour(d, dims, a)) :
        d \in {x \in Direction : ~has_wall(cs[a], x) /\ IsSome(neighbour(x, dims, a))}}

\* the cells next to a in the grid
Around(dims, a) ==
    {Unwrap(neighbour(d, dims, a)) : d \in {x \in Direction : IsSome(neighbour(x, dims, a))}}

\* the cells joined to a by a removed wall, of a or of the other cell
Adjacent(dims, cs, a) ==
    Open(dims, cs, a) \cup {b \in Around(dims, a) : a \in Open(dims, cs, b)}

Edges(dims, cs) == UNION {{{a, b} : b \in Adjacent(dims, cs, a)} : a \in DOMAIN cs}

\* the number of wall bits removed over the whole grid
RECURSIVE RemovedBits(_, _)
RemovedBits(cs, todo) ==
    IF todo = {} THEN 0
    ELSE LET i == CHOOSE x \in todo : TRUE
         IN  Cardinality({d \in Direction : ~has_wall(cs[i], d)}) + RemovedBits(cs, todo \ {i})

RECURSIVE ReachFrom(_, _, _, _)
ReachFrom(dims, cs, seen, frontier) ==
    IF frontier = {} THEN seen
    ELSE LET nxt == UNION {Adjacent(dims, cs, a) : a \in frontier} \ (seen \cup frontier)
         IN  ReachFrom(dims, cs, seen \cup frontier, nxt)

Reach(dims, cs, a) == ReachFrom(dims, cs, {}, {a})

Components(dims, cs) == {Reach(dims, cs, a) : a \in DOMAIN cs}

Connected(dims, cs) == Cardinality(Components(dims, cs)) = 1

\* a forest: one edge less than vertices in every component
Acyclic(dims, cs) ==
    Cardinality(Edges(dims, cs)) = CellsLen(cs) - Cardinality(Components(dims, cs))

\* a spanning tree, every edge of it a pair of removed wall bits
IsSpanningTree(dims, cs) ==
    /\ Connected(dims, cs)
    /\ Acyclic(dims, cs)
    /\ Cardinality(Edges(dims, cs)) = dims[1] * dims[2] - 1
    /\ RemovedBits(cs, DOMAIN cs) = 2 * Cardinality(Edges(dims, cs))

AllTagged(cs) == \A i \in DOMAIN cs : cs[i].walk # None

\* the cells at each number of moves from a, a move going through a removed wall of
\* the cell it leaves: the sequence of the breadth-first levels, <<{a}, the cells
\* one move away, ...>>
RECURSIVE LevelsFrom(_, _, _, _)
LevelsFrom(dims, cs, seen, frontier) ==
    IF frontier = {} THEN <<>>
    ELSE LET nxt == UNION {Open(dims, cs, a) : a \in frontier} \ (seen \cup frontier)
         IN  <<frontier>> \o LevelsFrom(dims, cs, seen \cup frontier, nxt)

Levels(dims, cs, a) == LevelsFrom(dims, cs, {}, {a})

\* the number of moves to b, given the levels from some cell; -1 if there is none
LevelOf(levels, b) ==
    IF \E k \in 1..Len(levels) : b \in levels[k]
    THEN (CHOOSE k \in 1..Len(levels) : b \in levels[k]) - 1
    ELSE -1

\* the cells of the simple path from f to t in a tree, f excluded, given the levels
\* from f and from t
TreePath(cs, f, t, lf, lt) ==
    {c \in DOMAIN cs \ {f} : LevelOf(lf, c) + LevelOf(lt, c) = LevelOf(lf, t)}

ResultCells(cs) == {c \in DOMAIN cs : cs[c].solution.result}

GeneratorReturned(ret) == last.call = "Generator::step" /\ last.ret = ret
SolverReturned(ret) == last.call = "Solver::step" /\ last.ret = ret

(***************************************************************************)
(* Generators and solvers run by the driver: C1, C2, C3 (under Spec).      *)
(***************************************************************************)
\* the outcomes of the step call the next animation frame makes in Phase::Generate
NextGeneratorStep ==
    IF phase = "Generate" /\ Running THEN GeneratorStep(generator, dimensions, cells) ELSE {}

\* C1: when step of the randomised depth first search carver, started fresh on a
\* fully walled untagged grid, first returns false, the wall-free graph is
\* connected, acyclic and has width*height-1 edges, and every cell has a walk tag.
C1_DfsCarverSpanningTree ==
    \A o \in NextGeneratorStep :
        (o.ret = "false" /\ generator.kind = "RandomisedDepthFirstSearch")
            => IsSpanningTree(dimensions, o.cells) /\ AllTagged(o.cells)

C1_Witness ==
    /\ GeneratorReturned("false")
    /\ generator.kind = "RandomisedDepthFirstSearch"
    /\ dimensions = <<3, 3>>
    /\ cells[4].walls = 5

\* C2: when step of Wilson's carver, started fresh on a fully walled untagged grid,
\* first returns false, the wall-free graph is connected, acyclic and has
\* width*height-1 edges, and every cell has a walk tag.
C2_WilsonCarverSpanningTree ==
    \A o \in NextGeneratorStep :
        (o.ret = "false" /\ generator.kind = "Wilson")
            => IsSpanningTree(dimensions, o.cells) /\ AllTagged(o.cells)

C2_Witness ==
    /\ GeneratorReturned("false")
    /\ generator.kind = "Wilson"
    /\ dimensions = <<3, 3>>
    /\ cells[4].walls = 0

\* C3: when step of any solver returns false on a spanning-tree maze with from # to,
\* the cells with result set are exactly the cells of the wall-free simple path
\* between from and to, from excluded and to included, and their number is the
\* tree distance between from and to (so all solvers flag the same cells).
C3_SolversFlagTreePath ==
    SolverReturned("false") =>
        LET lf == Levels(dimensions, cells, from)
            lt == Levels(dimensions, cells, to)
            flagged == ResultCells(cells)
        IN  /\ from # to
            /\ flagged = TreePath(cells, from, to, lf, lt)
            /\ from \notin flagged
            /\ to \in flagged
            /\ Cardinality(flagged) = LevelOf(lf, to)

C3_Witness ==
    /\ SolverReturned("false")
    /\ solver.kind = "WallFollowerLeft"
    /\ dimensions = <<3, 3>>
    /\ from = 0
    /\ to = 8
    /\ Cardinality(ResultCells(cells)) = 6

(***************************************************************************)
(* The lifecycle and the frame of a step call: C7, C8, C9, C10 (under      *)
(* Spec).                                                                  *)
(***************************************************************************)
\* a freshly constructed instance of the same algorithm
FreshGenerator(g) == IF g.kind = "Wilson" THEN WilsonDefault ELSE GenDfsDefault

FreshSolver(s) ==
    CASE s.kind = "AStarTaxicab" -> AStarTaxicabDefault
      [] s.kind = "AStarZero" -> AStarZeroDefault
      [] s.kind = "RandomisedDepthFirstSearch" -> SolveDfsDefault
      [] s.kind = "WallFollowerLeft" -> WallFollowerLeftDefault
      [] s.kind = "WallFollowerRight" -> WallFollowerRightDefault

\* C7: right after a step call of a generator or of a solver has returned false, the
\* algorithm's private state is that of a freshly constructed instance (not
\* initialised / no walk / no cell and direction, empty stack, empty distance table,
\* empty fringe), so that the next call takes the first-call branch.
C7_FalseLeavesFreshState ==
    /\ GeneratorReturned("false") => generator = FreshGenerator(generator)
    /\ SolverReturned("false") => solver = FreshSolver(solver)

C7_Witness ==
    /\ SolverReturned("false")
    /\ solver = AStarZeroDefault
    /\ generator = WilsonDefault
    /\ dimensions = <<3, 2>>

\* the walls of a grid
Walls(cs) == [i \in DOMAIN cs |-> cs[i].walls]

\* C8 as stated: the step call of a generator that returns false removes the last
\* wall of the maze (it performs the final grid mutation).
C8_FalseCallRemovesLastWall ==
    \A o \in NextGeneratorStep : o.ret = "false" => Walls(o.cells) # Walls(cells)

\* C8 as amended: the step call of a generator that returns false changes no cell;
\* the last wall was removed and the last cell tagged by an earlier call that
\* returned true, so the grid is a spanning tree with every cell tagged before
\* the call that returns false.
C8_FalseCallMutatesNothing ==
    \A o \in NextGeneratorStep :
        o.ret = "false" =>
            /\ o.cells = cells
            /\ IsSpanningTree(dimensions, cells)
            /\ AllTagged(cells)
            /\ GeneratorReturned("true")

C8_Witness ==
    /\ GeneratorReturned("true")
    /\ phase = "Generate"
    /\ generator.kind = "Wilson"
    /\ IsSpanningTree(dimensions, cells)
    /\ \E o \in NextGeneratorStep : o.ret = "false"

\* what a generator may change of a grid: wall bits from present to removed, and
\* walk tags
GeneratorFrame(before, after) ==
    /\ DOMAIN after = DOMAIN before
    /\ \A i \in DOMAIN before :
        /\ after[i].solution = before[i].solution
        /\ \A d \in Direction : has_wall(after[i], d) => has_wall(before[i], d)

\* C9: no step of a generator changes a cell's solution metadata (from, to,
\* previous, result); only wall bits and walk tags change, and a wall bit only
\* from present to removed.
C9_GeneratorFrame ==
    \A o \in NextGeneratorStep : GeneratorFrame(cells, o.cells)

C9_Witness ==
    /\ GeneratorReturned("true")
    /\ phase = "Generate"
    /\ generator.kind = "Wilson"
    /\ dimensions = <<2, 3>>
    /\ cells[0].walls = 11
    /\ cells[0].walk = Some(1)

\* what a solver may change of a grid: previous and result
SolverFrame(before, after) ==
    /\ DOMAIN after = DOMAIN before
    /\ \A i \in DOMAIN before :
        /\ after[i].walls = before[i].walls
        /\ after[i].walk = before[i].walk
        /\ after[i].solution.from = before[i].solution.from
        /\ after[i].solution.to = before[i].solution.to

\* C10: no step of a solver changes a cell's wall mask, walk tag, from flag or to
\* flag; a step changes only previous and result, and result only in the call
\* that returns false.
C10_SolverFrame ==
    [][last'.call = "Solver::step" =>
            /\ SolverFrame(cells, cells')
            /\ last'.ret # "false" => ResultCells(cells') = ResultCells(cells)]_vars

C10_Witness ==
    /\ SolverReturned("true")
    /\ solver.kind = "RandomisedDepthFirstSearch"
    /\ dimensions = <<3, 3>>
    /\ Cardinality({i \in DOMAIN cells : cells[i].solution.previous # None}) = 5
    /\ ResultCells(cells) = {}

(***************************************************************************)
(* The algorithms called outside the driver's discipline: a test harness   *)
(* that, once in a behaviour, calls step again after it returned false     *)
(* (a re-run) or replaces an algorithm's private state by a fresh instance *)
(* between two step calls of a run (a cancellation), never touching the    *)
(* grid.  The step calls themselves are the ticks of the driver.           *)
(***************************************************************************)
\* re-runs are explored on every grid of at most RerunMaxCells cells,
\* cancellations on every grid of at most CancelMaxCells cells
RerunMaxCells == 6
CancelMaxCells == 6

RerunGrids == {d \in SmallGrids : d[1] * d[2] <= RerunMaxCells}
CancelGrids == {d \in SmallGrids : d[1] * d[2] <= CancelMaxCells}

RerunInit == Init /\ dimensions \in RerunGrids
CancelInit == Init /\ dimensions \in CancelGrids

\* the generator is selected before the first step
RerunSelectGenerator ==
    /\ last.call = "main"
    /\ ClickGenerate
    /\ dimensions' \in RerunGrids

CancelSelectGenerator ==
    /\ last.call = "main"
    /\ ClickGenerate
    /\ dimensions' \in CancelGrids

\* Solver::step is called again after it has returned false: same solver instance,
\* same from and to, same grid
RerunSolver ==
    /\ probe.op = "none"
    /\ phase = "Complete"
    /\ last = [call |-> "Solver::step", ret |-> "false"]
    /\ phase' = "Solve"
    /\ calls' = 0
    /\ probe' = [NoProbe EXCEPT !.op = "rerun solver"]
    /\ UNCHANGED <<dimensions, cells, generator, solver, from, to, solveDisabled, last>>

\* Generator::step is called again after it has returned false: same generator
\* instance, same grid.  A generator reads neither from, to nor the solver, so the
\* re-run is explored for one draw of them.
RerunGenerator ==
    /\ probe.op = "none"
    /\ phase = "Solve"
    /\ last = [call |-> "Generator::step", ret |-> "false"]
    /\ <<from, to>> = <<0, 1>>
    /\ solver = AStarTaxicabDefault
    /\ phase' = "Generate"
    /\ probe' = [NoProbe EXCEPT !.op = "rerun generator"]
    /\ UNCHANGED <<dimensions, cells, generator, solver, from, to, solveDisabled, last, calls>>

\* the generator's private state is replaced by a fresh instance between two step
\* calls of a run
CancelGenerator ==
    /\ probe.op = "none"
    /\ phase = "Generate"
    /\ last = [call |-> "Generator::step", ret |-> "true"]
    /\ generator' = FreshGenerator(generator)
    /\ calls' = 0
    /\ probe' = [NoProbe EXCEPT !.op = "cancel generator"]
    /\ UNCHANGED <<phase, dimensions, cells, solver, from, to, solveDisabled, last>>

\* the solver's private state is replaced by a fresh instance between two step calls
\* of a run
CancelSolver ==
    /\ probe.op = "none"
    /\ phase = "Solve"
    /\ last = [call |-> "Solver::step", ret |-> "true"]
    /\ solver' = FreshSolver(solver)
    /\ calls' = 0
    /\ probe' = [NoProbe EXCEPT !.op = "cancel solver"]
    /\ UNCHANGED <<phase, dimensions, cells, generator, from, to, solveDisabled, last>>

RerunNext ==
    \/ RerunSelectGenerator
    \/ TickGenerate
    \/ TickSolve
    \/ TickComplete
    \/ RerunSolver
    \/ RerunGenerator

SpecRerun == RerunInit /\ [][RerunNext]_vars

CancelNext ==
    \/ CancelSelectGenerator
    \/ TickGenerate
    \/ TickSolve
    \/ TickComplete
    \/ CancelGenerator
    \/ CancelSolver

SpecCancel == CancelInit /\ [][CancelNext]_vars

(***************************************************************************)
(* Re-runs and cancellations: C11, C12 (under SpecRerun), C13 (under       *)
(* SpecCancel).                                                            *)
(***************************************************************************)
\* the result flags mark the path of the maze between from and to
ResultIsPath ==
    ResultCells(cells) =
        TreePath(cells, from, to, Levels(dimensions, cells, from), Levels(dimensions, cells, to))

\* C11: a solver whose step is called again after it returned false, with the same
\* from and to on the same grid (solution metadata not cleared), runs again without
\* a panic and without an endless loop, and when it returns false the result flags
\* mark the path between from and to.
C11_SolverRerunCompletes ==
    probe.op = "rerun solver" =>
        /\ Running
        /\ SolverReturned("false") => ResultIsPath

\* C12: a generator whose step is called again after it returned false, on the same
\* grid, starts a new run (the first call returns true) that ends at its second call
\* (which returns false), never faults, and leaves the removed walls a spanning tree.
C12_GeneratorRerunSpanningTree ==
    (probe.op = "rerun generator" /\ phase = "Generate") =>
        /\ Running
        /\ NextGeneratorStep # {}
        /\ \A o \in NextGeneratorStep :
            /\ o.ret = (IF last.ret = "false" THEN "true" ELSE "false")
            /\ IsSpanningTree(dimensions, o.cells)
            /\ AllTagged(o.cells)

C12_Witness ==
    /\ probe.op = "rerun generator"
    /\ phase = "Solve"
    /\ GeneratorReturned("false")
    /\ generator.kind = "Wilson"
    /\ dimensions = <<3, 2>>
    /\ IsSpanningTree(dimensions, cells)

\* C13: replacing an algorithm's private state by a fresh instance between two step
\* calls of a run, the grid left as it is, is safe: the fresh instance never panics
\* or loops for ever, and when its step returns false the grid is a spanning tree
\* (generators) or the result flags mark the path between from and to (solvers).
C13_CancellationSafe ==
    /\ probe.op \in {"cancel generator", "cancel solver"} => Running
    /\ (probe.op = "cancel generator" /\ GeneratorReturned("false")) =>
            IsSpanningTree(dimensions, cells)
    /\ (probe.op = "cancel solver" /\ SolverReturned("false")) => ResultIsPath

(***************************************************************************)
(* A*: C14, C15 (under Spec).                                              *)
(***************************************************************************)
IsAStar(s) == s.kind \in {"AStarZero", "AStarTaxicab"}

\* the fringe entries, as a set
FringeEntries(s) == {s.fringe[i] : i \in DOMAIN s.fringe}

\* C14: the entry a non-initial A* step pops has the smallest distance + heuristic
\* of the fringe and, among the entries of that cost, the smallest cell index.
C14_AStarPopsSmallestCellOnTies ==
    (phase = "Solve" /\ IsAStar(solver) /\ solver.initialised /\ solver.fringe # <<>>) =>
        LET popped == HeapPeek(solver.fringe)
        IN  \A e \in FringeEntries(solver) :
                /\ popped.cost <= e.cost
                /\ e.cost = popped.cost => popped.cell <= e.cell

\* A* has no random draw: step has one outcome, and a run is the sequence of its
\* calls up to the first that does not return true; n counts the calls
RECURSIVE AStarRun(_, _, _, _, _, _)
AStarRun(s, dims, cs, f, t, n) ==
    LET o == CHOOSE o \in AStarStep(s, dims, cs, f, t) : TRUE
    IN  IF o.ret = "true" THEN AStarRun(o.alg, dims, o.cells, f, t, n + 1)
        ELSE [cells |-> o.cells, ret |-> o.ret, calls |-> n + 1]

\* a solve is about to start: the solver is fresh, the solution metadata cleared and
\* from and to seeded
SolveStarts == phase = "Solve" /\ calls = 0 /\ solver = FreshSolver(solver)

\* C15: on the same maze with the same from and to, A* with the zero heuristic and
\* A* with the taxicab heuristic both run to completion and flag the same cells as
\* result; the two grids differ at most in the back-pointers of cells off the path.
C15_AStarHeuristicsAgree ==
    (SolveStarts /\ solver.kind = "AStarZero") =>
        LET zero == AStarRun(AStarZeroDefault, dimensions, cells, from, to, 0)
            taxi == AStarRun(AStarTaxicabDefault, dimensions, cells, from, to, 0)
        IN  /\ zero.ret = "false"
            /\ taxi.ret = "false"
            /\ ResultCells(zero.cells) = ResultCells(taxi.cells)
            /\ \A c \in DOMAIN cells :
                IF c \in ResultCells(zero.cells)
                THEN zero.cells[c] = taxi.cells[c]
                ELSE [zero.cells[c] EXCEPT !.solution.previous = None] =
                     [taxi.cells[c] EXCEPT !.solution.previous = None]

\* a maze on which the taxicab heuristic takes fewer step calls and leaves fewer
\* back-pointers than the zero heuristic
C15_Witness ==
    /\ SolveStarts
    /\ solver.kind = "AStarZero"
    /\ dimensions = <<3, 3>>
    /\ LET zero == AStarRun(AStarZeroDefault, dimensions, cells, from, to, 0)
           taxi == AStarRun(AStarTaxicabDefault, dimensions, cells, from, to, 0)
       IN  /\ taxi.calls < zero.calls
           /\ \E c \in DOMAIN cells :
                /\ zero.cells[c].solution.previous # None
                /\ taxi.cells[c].solution.previous = None
           /\ Cardinality(ResultCells(zero.cells)) >= 2

(***************************************************************************)
(* Solvers on a grid that breaks their precondition: C16, C17 (under       *)
(* SpecCancel, where a cancelled generator leaves a disconnected maze and  *)
(* a cancelled solver leaves back-pointers behind).                        *)
(***************************************************************************)
\* the outcomes of the step call the next solve tick makes
NextSolverStep ==
    IF phase = "Solve" /\ Running THEN SolverStep(solver, dimensions, cells, from, to) ELSE {}

Unreachable == to \notin Reach(dimensions, cells, from)

\* C16: a non-initial A* step called with an empty fringe (`to` was never popped)
\* panics: it returns neither true nor false, and leaves the grid as it is.
C16_AStarEmptyFringePanics ==
    (IsAStar(solver) /\ solver.initialised /\ solver.fringe = <<>>) =>
        \A o \in NextSolverStep : o.ret = "panic" /\ o.cells = cells

\* A* has panicked on a maze where no wall-free way leads from `from` to `to`
C16_Witness ==
    /\ IsAStar(solver)
    /\ solver.initialised
    /\ solver.fringe = <<>>
    /\ last = [call |-> "Solver::step", ret |-> "panic"]
    /\ Unreachable
    /\ calls >= 3

\* C17: when `to` cannot be reached from `from` through wall-free edges, a step call
\* of the depth first search solver whose stack runs empty does not loop for ever
\* inside the call (the claim: it surfaces a fatal fault instead).
C17_DfsSolverUnreachableNoHang ==
    (solver.kind = "RandomisedDepthFirstSearch" /\ last.call = "Solver::step" /\ Unreachable)
        => last.ret # "hang"

(***************************************************************************)
(* The wall follower: C18 (under Spec).                                    *)
(***************************************************************************)
IsWallFollower(s) == s.kind \in {"WallFollowerLeft", "WallFollowerRight"}

\* C18: on a generated maze with cleared solution metadata and from # to, every step
\* call of a wall follower returns (no panic, no endless scan or backtracking loop),
\* the call that returns false is made with the walker standing on `to`, and it is
\* at most the (width * height + 2)-th call.
C18_WallFollowerTerminates ==
    IsWallFollower(solver) =>
        /\ phase = "Solve" => Running
        /\ \A o \in NextSolverStep :
            /\ o.ret \in {"true", "false"}
            /\ o.ret = "false" =>
                /\ solver.cell_and_direction # None
                /\ Unwrap(solver.cell_and_direction)[1] = to
            /\ calls + 1 <= dimensions[1] * dimensions[2] + 2
        /\ phase = "Complete" => calls <= dimensions[1] * dimensions[2] + 2

\* a run that needed all width * height + 2 calls
C18_Witness ==
    /\ IsWallFollower(solver)
    /\ SolverReturned("false")
    /\ dimensions = <<3, 2>>
    /\ calls = dimensions[1] * dimensions[2] + 2

(***************************************************************************)
(* The driver: C19 (under SpecDriver), C20 (under SpecResize).             *)
(***************************************************************************)
\* C19: with any interleaving of ticks, Generate clicks and Solve clicks, the Solve
\* control is disabled exactly from the re-creation of the grid to the false return
\* of Generator::step; Solver::step is only called while it is enabled (so on a grid
\* whose generation is complete: a spanning tree), Generator::step only while it is
\* disabled (so never again on a grid it has completed), each in its own phase, and
\* no step is called in phase Complete.
C19_DriverOrdering ==
    [][/\ last'.call = "generate" => solveDisabled' /\ cells' = NewCells(CellsLen(cells'))
       /\ (last'.call = "Generator::step" /\ last'.ret = "false") => ~solveDisabled'
       /\ ~(last'.call = "generate" \/ (last'.call = "Generator::step" /\ last'.ret = "false"))
            => solveDisabled' = solveDisabled
       /\ last'.call = "Solver::step" =>
            /\ phase = "Solve"
            /\ ~solveDisabled
            /\ IsSpanningTree(dimensions, cells)
       /\ last'.call = "Generator::step" =>
            /\ phase = "Generate"
            /\ solveDisabled
       /\ phase = "Complete" => last'.call \notin {"Generator::step", "Solver::step"}
      ]_vars

\* a solver stepping on a maze of the generator selected by a Generate click, after
\* a Solve click selected the solver
C19_Witness ==
    /\ last = [call |-> "Solver::step", ret |-> "true"]
    /\ generator.kind = "Wilson"
    /\ solver.kind = "WallFollowerRight"
    /\ calls = 3
    /\ <<from, to>> = <<3, 0>>

\* the cells carrying the from flag, and those carrying the to flag
FromFlags(cs) == {c \in DOMAIN cs : cs[c].solution.from}
ToFlags(cs) == {c \in DOMAIN cs : cs[c].solution.to}

\* C20: whenever the driver is about to call Solver::step, from # to, both are
\* indexes of the current cells, and cells[from] is the only cell flagged from and
\* cells[to] the only cell flagged to; also after Generate clicks that changed the
\* size of the grid and after Solve clicks with or without new locations.
C20_DriverEndpoints ==
    phase = "Solve" =>
        /\ from # to
        /\ from \in 0..(CellsLen(cells) - 1)
        /\ to \in 0..(CellsLen(cells) - 1)
        /\ CellsLen(cells) = dimensions[1] * dimensions[2]
        /\ FromFlags(cells) = {from}
        /\ ToFlags(cells) = {to}

\* a solve started by a Solve click on a 2 x 2 grid made by a Generate click
C20_Witness ==
    /\ phase = "Solve"
    /\ last.call = "solve"
    /\ dimensions = <<2, 2>>
    /\ generator.kind = "Wilson"
    /\ solver.kind = "WallFollowerLeft"
    /\ <<from, to>> = <<3, 1>>

(***************************************************************************)
(* The driver's requests: C21 (under SpecDriver), C22 (under SpecResize).  *)
(***************************************************************************)
\* the walk tags of a grid
WalkTags(cs) == [i \in DOMAIN cs |-> cs[i].walk]

\* C21: right after any Solve click (it comes in phase Solve or Complete), every
\* cell has no back-pointer and result false, the from flag is set on cells[from]
\* alone and the to flag on cells[to] alone, from # to, the solver is a fresh
\* instance, the walls and the walk tags are those of before the click, and the
\* phase is Solve.
C21_SolveClickPostState ==
    [][last'.call = "solve" =>
            /\ phase \in {"Solve", "Complete"}
            /\ \A i \in DOMAIN cells' :
                /\ cells'[i].solution.previous = None
                /\ ~cells'[i].solution.result
            /\ from' # to'
            /\ FromFlags(cells') = {from'}
            /\ ToFlags(cells') = {to'}
            /\ solver' = FreshSolver(solver')
            /\ calls' = 0
            /\ Walls(cells') = Walls(cells)
            /\ WalkTags(cells') = WalkTags(cells)
            /\ phase' = "Solve"
      ]_vars

\* a Solve click that chose new locations and the depth first search solver, on a
\* maze of Wilson's algorithm
C21_Witness ==
    /\ last.call = "solve"
    /\ phase = "Solve"
    /\ solver = SolveDfsDefault
    /\ generator.kind = "Wilson"
    /\ <<from, to>> = <<2, 1>>
    /\ IsSpanningTree(dimensions, cells)

\* C22: right after any Generate click (in any phase, also while a maze is being
\* generated or solved), width and height are both at least 2, the grid has exactly
\* width * height cells, every cell has all four walls, no walk tag and default
\* solution metadata, the generator is a fresh instance, the Solve control is
\* disabled and the phase is Generate.
C22_GenerateClickPostState ==
    last.call = "generate" =>
        /\ dimensions[1] >= 2
        /\ dimensions[2] >= 2
        /\ DOMAIN cells = 0..(dimensions[1] * dimensions[2] - 1)
        /\ \A i \in DOMAIN cells :
            /\ \A d \in Direction : has_wall(cells[i], d)
            /\ cells[i].walk = None
            /\ cells[i].solution = CellSolutionDefault
        /\ generator = FreshGenerator(generator)
        /\ solveDisabled
        /\ phase = "Generate"

\* a Generate click that came while A* was solving a 3 x 2 maze from its last cell,
\* and made the grid 2 x 2
C22_Witness ==
    /\ last.call = "generate"
    /\ generator = WilsonDefault
    /\ dimensions = <<2, 2>>
    /\ solver.kind = "AStarTaxicab"
    /\ solver.initialised
    /\ from = 5

(***************************************************************************)
(* The progress of the depth first search carver: C23 (under Spec).        *)
(***************************************************************************)
\* the cells with a walk tag
Tagged(cs) == {i \in DOMAIN cs : cs[i].walk # None}

\* the direction facing d
Opposite(d) == next(next(d))

\* after differs from before in exactly the wall pair between the adjacent cells a
\* and b, present before and removed after
RemovesWallPair(dims, before, after, a, b) ==
    \E d \in Direction :
        /\ neighbour(d, dims, a) = Some(b)
        /\ has_wall(before[a], d)
        /\ has_wall(before[b], Opposite(d))
        /\ Walls(after) = [Walls(before) EXCEPT ![a] = @ - d, ![b] = @ - Opposite(d)]

\* C23: the first step call of the depth first search carver tags exactly one cell
\* and removes no wall; every later call that returns true tags exactly one cell
\* that had no tag and removes exactly the wall pair between it and an adjacent cell
\* that had a tag, leaving the new cell on top of the stack and the other cell
\* directly below it; and whatever the random choices, step returns false on call
\* number width * height + 1 and on no other call.
C23_DfsCarverProgress ==
    (phase = "Generate" /\ generator.kind = "RandomisedDepthFirstSearch") =>
        /\ Running
        /\ \A o \in NextGeneratorStep :
            LET new == Tagged(o.cells) \ Tagged(cells)
                stack == o.alg.stack
            IN  /\ o.ret \in {"true", "false"}
                /\ o.ret = "false" <=> calls + 1 = dimensions[1] * dimensions[2] + 1
                /\ Tagged(cells) \subseteq Tagged(o.cells)
                /\ calls = 0 =>
                    /\ o.ret = "true"
                    /\ Cardinality(new) = 1
                    /\ Walls(o.cells) = Walls(cells)
                /\ (calls > 0 /\ o.ret = "true") =>
                    /\ Cardinality(new) = 1
                    /\ Len(stack) >= 2
                    /\ {Top(stack)} = new
                    /\ stack[Len(stack) - 1] \in Tagged(cells)
                    /\ RemovesWallPair(dimensions, cells, o.cells,
                                       stack[Len(stack) - 1], Top(stack))

\* the carver on a 3 x 3 grid after nine calls, the last of them made after
\* backtracking out of a dead end: the tenth call returns false
C23_Witness ==
    /\ phase = "Generate"
    /\ GeneratorReturned("true")
    /\ generator.kind = "RandomisedDepthFirstSearch"
    /\ dimensions = <<3, 3>>
    /\ calls = 9
    /\ Len(generator.stack) < 9
    /\ \E o \in NextGeneratorStep : o.ret = "false"

(***************************************************************************)
(* The termination of the depth first search solver and of A*: C24 (under  *)
(* Spec).                                                                  *)
(***************************************************************************)
IsDfsSolver(s) == s.kind = "RandomisedDepthFirstSearch"

\* C24: on a generated maze with cleared solution metadata and from # to, every step
\* call of the depth first search solver and of A* (either heuristic) returns true
\* or false (no panic, no endless loop, the fringe is never empty when popped), the
\* call that returns false is at most call number width * height + 1, and it is the
\* call after the one that gave `to` its back-pointer (depth first search) or the
\* call that pops `to` (A*).
C24_DfsAndAStarTerminate ==
    (IsDfsSolver(solver) \/ IsAStar(solver)) =>
        /\ phase = "Solve" => Running
        /\ \A o \in NextSolverStep :
            /\ o.ret \in {"true", "false"}
            /\ calls + 1 <= dimensions[1] * dimensions[2] + 1
            /\ IsDfsSolver(solver) =>
                (o.ret = "false" <=> cells[to].solution.previous # None)
            /\ IsAStar(solver) =>
                /\ solver.initialised => solver.fringe # <<>>
                /\ o.ret = "false" <=>
                    (solver.initialised /\ HeapPeek(solver.fringe).cell = to)
        /\ phase = "Complete" => calls <= dimensions[1] * dimensions[2] + 1

\* a run of the depth first search solver on a 3 x 3 maze that needed all
\* width * height + 1 calls
C24_Witness ==
    /\ IsDfsSolver(solver)
    /\ SolverReturned("false")
    /\ dimensions = <<3, 3>>
    /\ calls = dimensions[1] * dimensions[2] + 1

(***************************************************************************)
(* The liveness of the driver: C25 (under SpecDriverLive).                 *)
(*                                                                         *)
(* The animation frame re-arms itself at the end of every run              *)
(* (request_animation_frame, lib.rs:507), so a tick that can happen does    *)
(* happen: weak fairness of Tick.  Wilson's algorithm picks the next cell   *)
(* of its walk uniformly at random among the neighbours of the walk's head: *)
(* a cell that can be picked again and again is picked in the end, which   *)
(* is strong fairness of the move of the walk to each cell.  Nothing is    *)
(* assumed of the clicks.                                                  *)
(***************************************************************************)
Tick == TickGenerate \/ TickSolve \/ TickComplete

\* the tick on which Wilson's walk picks the neighbour n of its head: the step of
\* TickGenerate whose outcome is that of WilsonContinue for n
WilsonMoveTo(n) ==
    /\ Running
    /\ phase = "Generate"
    /\ generator.kind = "Wilson"
    /\ generator.walk # None
    /\ generator.stack # <<>>
    /\ \E i \in 1..Len(Neighbours(dimensions, Top(generator.stack))) :
            Neighbours(dimensions, Top(generator.stack))[i] = n
    /\ LET o == WilsonContinue(generator, dimensions, cells, Unwrap(generator.walk), n)
       IN  /\ o.ret # "false"
           /\ generator' = o.alg
           /\ cells' = o.cells
           /\ last' = [call |-> "Generator::step", ret |-> o.ret]
    /\ UNCHANGED <<phase, dimensions, solver, from, to, solveDisabled, calls, probe>>

\* the cells of the grids of the driver
DriverCells == 0..(DriverMaxCells - 1)

\* a Solve click with the new-locations box unchecked; every pair of locations is
\* drawn when a generation completes, so that these clicks reach every state the
\* clicks of SpecDriver reach
LiveClickSolve == ClickSolve /\ <<from', to'>> = <<from, to>>

LiveNext ==
    \/ DriverClickGenerate
    \/ LiveClickSolve
    \/ TickGenerate
    \/ TickSolve
    \/ TickComplete

SpecDriverLive ==
    /\ DriverInit
    /\ [][LiveNext]_vars
    /\ WF_vars(Tick)
    /\ \A n \in DriverCells : SF_vars(WilsonMoveTo(n))

\* the last callback was a click
Clicked == last.call \in {"generate", "solve"}

\* C25: from any state the driver reaches, with either generator and any of the
\* five solvers, no tick panics or loops for ever, and unless Generate or Solve
\* clicks keep coming the ticks bring the phase to Complete, where it stays.
C25_DriverLiveness ==
    /\ []Running
    /\ ([]<>Clicked) \/ <>[](phase = "Complete")

\* the phase Complete reached on a maze of Wilson's algorithm, after a Solve click
\* had restarted the solve
C25_Witness ==
    /\ phase = "Complete"
    /\ last.call = "tick"
    /\ generator.kind = "Wilson"
    /\ solver = WallFollowerRightDefault
    /\ <<from, to>> = <<3, 0>>

(***************************************************************************)
(* The walks of Wilson's algorithm: C26, C27 (under Spec).                 *)
(***************************************************************************)
\* Wilson's algorithm is in a run: its first call has been made
WilsonRuns == phase = "Generate" /\ Running /\ generator.kind = "Wilson" /\ generator.walk # None

\* the cells of a stack
StackCells(stack) == {stack[i] : i \in 1..Len(stack)}

\* the cells tagged with the walk id
TaggedWith(cs, walk) == {c \in DOMAIN cs : cs[c].walk = Some(walk)}

\* the neighbours the head of the walk may pick
HeadNeighbours ==
    IF WilsonRuns /\ generator.stack # <<>>
    THEN LET neighbours == Neighbours(dimensions, Top(generator.stack))
         IN  {neighbours[i] : i \in 1..Len(neighbours)}
    ELSE {}

\* C26: between the steps of Wilson's algorithm the cells tagged with the current
\* walk id are exactly the cells of the stack, none of them twice; and a step whose
\* picked neighbour carries the current walk id pops the stack down to that
\* neighbour (the stack never runs empty), untags every popped cell, leaves the
\* neighbour tagged and on top of the stack, changes no wall and no other cell,
\* keeps the walk counter and returns true.
C26_WilsonLoopErasure ==
    WilsonRuns =>
        LET walk == Unwrap(generator.walk)
            stack == generator.stack
        IN  /\ TaggedWith(cells, walk) = StackCells(stack)
            /\ Cardinality(StackCells(stack)) = Len(stack)
            /\ \A n \in HeadNeighbours \cap TaggedWith(cells, walk) :
                LET o == WilsonContinue(generator, dimensions, cells, walk, n)
                    kept == o.alg.stack
                    popped == {stack[i] : i \in (Len(kept) + 1)..Len(stack)}
                IN  /\ o.ret = "true"
                    /\ kept # <<>>
                    /\ Top(kept) = n
                    /\ Len(kept) < Len(stack)
                    /\ kept = SubSeq(stack, 1, Len(kept))
                    /\ o.alg.walk = generator.walk
                    /\ Walls(o.cells) = Walls(cells)
                    /\ \A c \in popped : o.cells[c].walk = None
                    /\ \A c \in DOMAIN cells \ popped : o.cells[c] = cells[c]
                    /\ o.cells[n].walk = Some(walk)

\* a walk of five cells on a 3 x 3 grid whose head may pick the second cell of the
\* walk: the step erases a loop of three cells
C26_Witness ==
    /\ WilsonRuns
    /\ dimensions = <<3, 3>>
    /\ Len(generator.stack) = 5
    /\ generator.stack[2] \in HeadNeighbours
    /\ GeneratorReturned("true")

\* the wall pairs a commit removes: from each cell of the stack to the cell above it,
\* and from the head to the picked neighbour n
CommitPairs(stack, n) ==
    {<<stack[i], IF i = Len(stack) THEN n ELSE stack[i + 1]>> : i \in 1..Len(stack)}

\* C27: a step of Wilson's algorithm whose picked neighbour carries the id of an
\* earlier walk removes, in that one call, the wall pair between the head and the
\* neighbour and between every two consecutive cells of the stack (as many wall
\* pairs as the stack has cells, each on both of its cells, and no other wall bit),
\* empties the stack, adds exactly one to the walk counter, changes no walk tag and
\* returns true.
C27_WilsonWalkCommit ==
    WilsonRuns =>
        LET walk == Unwrap(generator.walk)
            stack == generator.stack
        IN  \A n \in HeadNeighbours \ TaggedWith(cells, walk) :
                cells[n].walk # None =>
                    LET o == WilsonContinue(generator, dimensions, cells, walk, n)
                    IN  /\ Unwrap(cells[n].walk) < walk
                        /\ o.ret = "true"
                        /\ o.alg.stack = <<>>
                        /\ o.alg.walk = Some(walk + 1)
                        /\ WalkTags(o.cells) = WalkTags(cells)
                        /\ Cardinality(CommitPairs(stack, n)) = Len(stack)
                        /\ \A p \in CommitPairs(stack, n) :
                            \E d \in Direction :
                                /\ neighbour(d, dimensions, p[1]) = Some(p[2])
                                /\ has_wall(cells[p[1]], d)
                                /\ has_wall(cells[p[2]], Opposite(d))
                                /\ ~has_wall(o.cells[p[1]], d)
                                /\ ~has_wall(o.cells[p[2]], Opposite(d))
                        /\ GeneratorFrame(cells, o.cells)
                        /\ RemovedBits(o.cells, DOMAIN cells) =
                                RemovedBits(cells, DOMAIN cells) + 2 * Len(stack)

\* the third walk on a 3 x 3 grid, four cells long, its head next to a cell of an
\* earlier walk
C27_Witness ==
    /\ WilsonRuns
    /\ dimensions = <<3, 3>>
    /\ generator.walk = Some(3)
    /\ Len(generator.stack) = 4
    /\ \E n \in HeadNeighbours : cells[n].walk # None /\ Unwrap(cells[n].walk) < 3
    /\ GeneratorReturned("true")

(***************************************************************************)
(* The wall follower's moves: C28 (under Spec).                            *)
(***************************************************************************)
\* the directions a walker facing d tests, in order
TurnOrder(kind, d) ==
    IF kind = "WallFollowerRight"
    THEN <<next(d), d, prev(d), next(next(d))>>
    ELSE <<prev(d), d, next(d), next(next(d))>>

\* the first direction of the turn order without a wall on cell; None if the cell
\* has all four walls
FirstOpen(kind, cell, d) ==
    LET order == TurnOrder(kind, d)
        open == {i \in 1..Len(order) : ~has_wall(cell, order[i])}
    IN  IF open = {} THEN None
        ELSE Some(order[CHOOSE i \in open : \A j \in open : i <= j])

\* the wall follower has a walker that is not on `to`
WalkerMoves ==
    /\ phase = "Solve"
    /\ Running
    /\ IsWallFollower(solver)
    /\ solver.cell_and_direction # None
    /\ Unwrap(solver.cell_and_direction)[1] # to

\* C28: at each move a right-handed walker facing d tests next(d), d, prev(d),
\* next(next(d)) in that order, a left-handed walker prev(d), d, next(d),
\* next(next(d)), and moves through the first without a wall; its new facing is the
\* direction moved.  A move into a cell without a back-pointer records the cell
\* moved from as its back-pointer and ends the step call (true); a move into a cell
\* with a back-pointer records nothing and the call goes on as a call made with the
\* walker moved.
C28_WallFollowerTurnOrder ==
    WalkerMoves =>
        LET cell == Unwrap(solver.cell_and_direction)[1]
            facing == Unwrap(solver.cell_and_direction)[2]
            found == FirstOpen(solver.kind, cells[cell], facing)
        IN  /\ found # None
            /\ neighbour(Unwrap(found), dimensions, cell) # None
            /\ LET direction == Unwrap(found)
                   nb == Unwrap(neighbour(direction, dimensions, cell))
                   moved == [solver EXCEPT !.cell_and_direction = Some(<<nb, direction>>)]
               IN  \A o \in NextSolverStep :
                        IF cells[nb].solution.previous = None
                        THEN /\ o.ret = "true"
                             /\ o.alg = moved
                             /\ o.cells = [cells EXCEPT ![nb].solution.previous = Some(cell)]
                        ELSE o \in SolverStep(moved, dimensions, cells, from, to)

\* a right-handed walker in a dead end of a 3 x 3 maze: the only open side is the one
\* behind it, the last of its turn order, and the cell there has a back-pointer
C28_Witness ==
    /\ WalkerMoves
    /\ solver.kind = "WallFollowerRight"
    /\ dimensions = <<3, 3>>
    /\ LET cell == Unwrap(solver.cell_and_direction)[1]
           facing == Unwrap(solver.cell_and_direction)[2]
           back == next(next(facing))
       IN  /\ FirstOpen(solver.kind, cells[cell], facing) = Some(back)
           /\ cells[Unwrap(neighbour(back, dimensions, cell))].solution.previous # None

(***************************************************************************)
(* The back-pointers: C29, C30 (under Spec).                               *)
(***************************************************************************)
\* following the back-pointers from cell c reaches f without coming to a cell twice
\* and without running out of back-pointers
RECURSIVE ChainReaches(_, _, _, _)
ChainReaches(cs, f, c, seen) ==
    IF c = f THEN TRUE
    ELSE IF c \in seen \/ cs[c].solution.previous = None THEN FALSE
    ELSE ChainReaches(cs, f, Unwrap(cs[c].solution.previous), seen \cup {c})

\* the cells with a back-pointer
Visited(cs) == {c \in DOMAIN cs : cs[c].solution.previous # None}

\* C29: in a run of the depth first search solver or of A* started on cleared
\* solution metadata, no step call changes a back-pointer that is set, `from` never
\* gets a back-pointer, every back-pointer names a cell next to its cell with no
\* wall between the two, and following the back-pointers from any cell that has one
\* reaches `from` without coming to a cell twice.
C29_BackPointersFormTree ==
    [][(last'.call = "Solver::step" /\ (IsDfsSolver(solver) \/ IsAStar(solver))) =>
            /\ \A c \in Visited(cells) :
                    cells'[c].solution.previous = cells[c].solution.previous
            /\ from \notin Visited(cells')
            /\ \A c \in Visited(cells') :
                LET p == Unwrap(cells'[c].solution.previous)
                IN  /\ p \in Open(dimensions, cells', c)
                    /\ c \in Open(dimensions, cells', p)
                    /\ ChainReaches(cells', from, c, {})
      ]_vars

\* A* with the zero heuristic has explored a whole 3 x 3 maze from its centre
C29_Witness ==
    /\ SolverReturned("true")
    /\ solver.kind = "AStarZero"
    /\ dimensions = <<3, 3>>
    /\ from = 4
    /\ Visited(cells) = DOMAIN cells \ {from}

\* C30 as stated: in a run of a wall follower started on cleared solution metadata
\* on a generated maze, `from` never gets a back-pointer (so that the back-pointers
\* form a forest rooted at `from`).
C30_FromNeverGetsBackPointer ==
    (IsWallFollower(solver) /\ phase \in {"Solve", "Complete"}) => from \notin Visited(cells)

\* C30 as amended: in such a run `from` gets a back-pointer in the step call that
\* first moves the walker back into it, and that call ends there; a back-pointer
\* that is set is never changed, every back-pointer names a cell next to its cell
\* with no wall between the two, the cell `from` points to points back to `from`
\* (the one cycle of the back-pointers), and following the back-pointers from any
\* other cell that has one reaches `from` without coming to a cell twice.
C30_WallFollowerBackPointers ==
    [][(last'.call = "Solver::step" /\ IsWallFollower(solver)) =>
            /\ \A c \in Visited(cells) :
                    cells'[c].solution.previous = cells[c].solution.previous
            /\ \A c \in Visited(cells') :
                LET p == Unwrap(cells'[c].solution.previous)
                IN  /\ p \in Open(dimensions, cells', c)
                    /\ c \in Open(dimensions, cells', p)
                    /\ IF c = from
                       THEN cells'[p].solution.previous = Some(from)
                       ELSE ChainReaches(cells', from, c, {})
            /\ (from \in Visited(cells') \ Visited(cells)) =>
                    /\ last'.ret = "true"
                    /\ solver'.cell_and_direction # None
                    /\ Unwrap(solver'.cell_and_direction)[1] = from
            /\ (calls' >= 2 /\ solver'.cell_and_direction # None
                    /\ Unwrap(solver'.cell_and_direction)[1] = from) =>
                    from \in Visited(cells')
      ]_vars

\* a walker that has come back to `from` out of a dead end of a 3 x 3 maze and has
\* moved on since
C30_Witness ==
    /\ IsWallFollower(solver)
    /\ SolverReturned("true")
    /\ dimensions = <<3, 3>>
    /\ from \in Visited(cells)
    /\ Unwrap(solver.cell_and_direction)[1] # from
    /\ Cardinality(Visited(cells)) >= 4

(***************************************************************************)
(* The partial maze during generation: C31 (under Spec).                   *)
(***************************************************************************)
\* the cells of Wilson's algorithm that belong to a completed walk: tagged with an
\* id lower than the walk counter, or with any id once the algorithm has ended
\* (the counter is reset to None)
Committed(cs, counter) ==
    {c \in Tagged(cs) : counter = None \/ Unwrap(cs[c].walk) < Unwrap(counter)}

\* the cells of T form one connected tree of the wall-free graph, with exactly one
\* removed wall (a pair of wall bits) less than cells, and every cell outside T has
\* all four walls
TreeOn(dims, cs, T) ==
    /\ T # {}
    /\ Reach(dims, cs, CHOOSE a \in T : TRUE) = T
    /\ Cardinality(Edges(dims, cs)) = Cardinality(T) - 1
    /\ RemovedBits(cs, DOMAIN cs) = 2 * (Cardinality(T) - 1)
    /\ \A c \in DOMAIN cs \ T : \A d \in Direction : has_wall(cs[c], d)

\* C31: after every step call of either generator, not only the last one, the
\* wall-free graph is acyclic; for the depth first search carver the tagged cells
\* form one connected tree with (number of tagged cells - 1) removed walls and
\* every untagged cell has all four walls; for Wilson's algorithm the cells tagged
\* with an id lower than the walk counter form one connected tree, and every
\* untagged cell and every cell tagged with the current walk id has all four walls.
C31_PartialMazeIsTree ==
    \A o \in NextGeneratorStep :
        /\ o.ret \in {"true", "false"}
        /\ Acyclic(dimensions, o.cells)
        /\ generator.kind = "RandomisedDepthFirstSearch" =>
            TreeOn(dimensions, o.cells, Tagged(o.cells))
        /\ generator.kind = "Wilson" =>
            /\ TreeOn(dimensions, o.cells, Committed(o.cells, o.alg.walk))
            /\ o.alg.walk # None =>
                \A c \in TaggedWith(o.cells, Unwrap(o.alg.walk)) :
                    \A d \in Direction : has_wall(o.cells[c], d)

\* Wilson's algorithm in its third walk on a 3 x 3 grid: two walks are part of the
\* maze, at least four cells in all, and the current walk has two cells or more
C31_Witness ==
    /\ phase = "Generate"
    /\ GeneratorReturned("true")
    /\ generator.kind = "Wilson"
    /\ dimensions = <<3, 3>>
    /\ generator.walk = Some(3)
    /\ Len(generator.stack) >= 2
    /\ Cardinality(Committed(cells, generator.walk)) >= 4
    /\ TreeOn(dimensions, cells, Committed(cells, generator.walk))

(***************************************************************************)
(* The symmetry of the walls: C32 (under Spec).                            *)
(***************************************************************************)
\* the wall of cell a in direction d lies on the outer boundary of the grid
OuterWall(dims, a, d) == ~InsideRowCol(dims, StepRowCol(row_and_col(dims, a), d))

\* a lacks its wall in direction d exactly when the neighbour in that direction
\* exists and lacks the wall facing a
WallSymmetry(dims, cs) ==
    \A a \in DOMAIN cs, d \in Direction :
        LET b == neighbour(d, dims, a)
        IN  ~has_wall(cs[a], d) <=>
                (IsSome(b) /\ Unwrap(b) \in DOMAIN cs /\ ~has_wall(cs[Unwrap(b)], Opposite(d)))

\* the wall follower's walker stands on a cell other than `to`: its next call
\* looks up the neighbour behind the first open wall of its scan
WalkerLooksUp ==
    /\ phase = "Solve"
    /\ Running
    /\ IsWallFollower(solver)
    /\ solver.cell_and_direction # None
    /\ Unwrap(solver.cell_and_direction)[1] # to

\* the grid is as the generator steps have left it: a generation is under way, or
\* the last call made was a generator step (the solver steps that follow change no
\* wall)
AfterGeneratorSteps == phase = "Generate" \/ last.call = "Generator::step"

\* C32: in every state reached by generator steps from a fully walled grid, a cell
\* lacks its wall in a direction if and only if the neighbour in that direction is
\* a cell of the grid that lacks its wall in the opposite direction, and no wall on
\* the outer boundary of the grid is removed; so the neighbour behind an open wall
\* always exists, and the wall follower's lookup of it never fails.
C32_WallSymmetry ==
    /\ AfterGeneratorSteps =>
        /\ WallSymmetry(dimensions, cells)
        /\ \A a \in DOMAIN cells, d \in Direction :
            /\ OuterWall(dimensions, a, d) => has_wall(cells[a], d)
            /\ ~has_wall(cells[a], d) => IsSome(neighbour(d, dimensions, a))
        /\ \A o \in NextGeneratorStep : o.ret # "panic"
    /\ WalkerLooksUp =>
        LET cell == Unwrap(solver.cell_and_direction)[1]
            facing == Unwrap(solver.cell_and_direction)[2]
            found == WallFollowerScan(solver.kind, cells[cell], initial(solver.kind, facing), {})
        IN  /\ found # None
            /\ IsSome(neighbour(Unwrap(found), dimensions, cell))
            /\ \A o \in NextSolverStep : o.ret # "panic"

\* a right-hand walker that has moved into the top left corner of a 3 x 3 maze:
\* its scan starts at an outer wall of the corner
C32_Witness ==
    /\ WalkerLooksUp
    /\ dimensions = <<3, 3>>
    /\ solver.kind = "WallFollowerRight"
    /\ Unwrap(solver.cell_and_direction)[1] = 0
    /\ OuterWall(dimensions, 0, initial(solver.kind, Unwrap(solver.cell_and_direction)[2]))
    /\ cells[0].solution.previous # None

(***************************************************************************)
(* The fringe of A*: C33 (under Spec).                                     *)
(***************************************************************************)
\* the cells of the fringe entries
FringeCells(s) == {e.cell : e \in FringeEntries(s)}

\* the recorded distance of a cell; None before the table is sized
DistanceOf(s, c) == IF c \in DOMAIN s.distances THEN s.distances[c] ELSE None

\* the cells a call records a distance for
NewlyRecorded(before, after) ==
    {c \in DOMAIN after.distances : DistanceOf(before, c) = None /\ after.distances[c] # None}

\* C33: during a run of A* started on cleared solution metadata, the fringe never
\* holds two entries for the same cell and every cell of it has a recorded
\* distance; a call pushes only cells that had no recorded distance, one entry for
\* each, and changes no distance that was set (the table is cleared by the last
\* call only), so that each cell is pushed at most once; and the purge of the
\* entries of the popped cell removes nothing.
C33_AStarFringeUnique ==
    (phase = "Solve" /\ IsAStar(solver)) =>
        /\ Len(solver.fringe) = Cardinality(FringeCells(solver))
        /\ \A e \in FringeEntries(solver) :
            /\ DistanceOf(solver, e.cell) # None
            /\ e.cost = Unwrap(DistanceOf(solver, e.cell))
                            + heuristic(solver.kind, dimensions, e.cell, to)
        /\ ~solver.initialised => solver.fringe = <<>> /\ solver.distances = <<>>
        /\ \A o \in NextSolverStep :
            LET rest == IF solver.initialised THEN HeapPop(solver.fringe) ELSE <<>>
                popped == IF solver.initialised THEN {HeapPeek(solver.fringe).cell} ELSE {}
                new == NewlyRecorded(solver, o.alg)
            IN  /\ o.ret \in {"true", "false"}
                /\ SelectSeq(rest, LAMBDA state : state.cell \notin popped) = rest
                /\ o.ret = "true" =>
                    /\ \A c \in DOMAIN solver.distances :
                        solver.distances[c] # None => o.alg.distances[c] = solver.distances[c]
                    /\ new \cap (FringeCells(solver) \cup popped) = {}
                    /\ FringeCells(o.alg) = {rest[i].cell : i \in DOMAIN rest} \cup new
                    /\ Len(o.alg.fringe) = Len(rest) + Cardinality(new)
                /\ o.ret = "false" => o.alg.fringe = <<>> /\ o.alg.distances = <<>>

\* A* on a 3 x 3 maze after a call that pushed two cells: three entries wait on
\* the fringe and two cells have been expanded
C33_Witness ==
    /\ phase = "Solve"
    /\ IsAStar(solver)
    /\ solver.initialised
    /\ dimensions = <<3, 3>>
    /\ Len(solver.fringe) = 3
    /\ Cardinality({c \in DOMAIN solver.distances : solver.distances[c] # None}) >= 5
    /\ \E c \in DOMAIN cells :
        Cardinality({n \in FringeCells(solver) : cells[n].solution.previous = Some(c)}) = 2

====
